---- MODULE Spec2Model ----
\* Journal-driven state reconstruction of ED_Explorer: the ledger of
\* app.py (ExplorationState with archived systems) and of EDExplorer.py
\* (flat ExplorationState), the value model of planet_values.py and the
\* event handlers that mutate the ledger.
EXTENDS Integers, Sequences, FiniteSets, TLC

VARIABLES variant, pc, current_system, systems,
          next_route_system, next_route_star_class, remaining_jumps,
          last, repeated, refreshed, lines, cache, rendered,
          system_signals, journal_file, reader

vars == <<variant, pc, current_system, systems,
          next_route_system, next_route_star_class, remaining_jumps,
          last, repeated, refreshed, lines, cache, rendered,
          system_signals, journal_file, reader>>

ledger == <<current_system, systems,
            next_route_system, next_route_star_class, remaining_jumps>>

\* ------------------------------------------------------------------
\* Bounds
\* ------------------------------------------------------------------
\* Number of journal lines the tail loop applies in one run.
MaxLines == 4
\* Number of lines of the journal that exist when the program starts.
MaxBoot == 1

\* ------------------------------------------------------------------
\* Python string and dict primitives
\* ------------------------------------------------------------------
\* Python None, and the absence of a key, for string/number valued fields.
None == "None"

\* t in s
Contains(s, t) ==
    \E i \in 1..(Len(s) - Len(t) + 1) : SubSeq(s, i, i + Len(t) - 1) = t

\* s.replace(t, "")
RECURSIVE Remove(_, _)
Remove(s, t) ==
    IF Len(s) < Len(t) THEN s
    ELSE IF SubSeq(s, 1, Len(t)) = t
         THEN Remove(SubSeq(s, Len(t) + 1, Len(s)), t)
         ELSE SubSeq(s, 1, 1) \o Remove(SubSeq(s, 2, Len(s)), t)

\* s.strip()
RECURSIVE Strip(_)
Strip(s) ==
    IF Len(s) = 0 THEN s
    ELSE IF SubSeq(s, 1, 1) = " " THEN Strip(SubSeq(s, 2, Len(s)))
    ELSE IF SubSeq(s, Len(s), Len(s)) = " " THEN Strip(SubSeq(s, 1, Len(s) - 1))
    ELSE s

\* d.get(k, default)
Get(d, k, default) == IF k \in DOMAIN d THEN d[k] ELSE default

\* ------------------------------------------------------------------
\* planet_values.py
\* ------------------------------------------------------------------
\* A dict literal keeps the last value of a repeated key ("Metal rich
\* body", "High metal content body").
PLANET_BASE_VALUES ==
    ("Earthlike body" :> 1200000) @@
    ("Water world" :> 600000) @@
    ("Ammonia world" :> 400000) @@
    ("Rocky body" :> 130000) @@
    ("High metal content body" :> 14000) @@
    ("Metal rich body" :> 31000) @@
    ("Class I gas giant" :> 3800) @@
    ("Class II gas giant" :> 28000) @@
    ("Class III gas giant" :> 1000) @@
    ("Class IV gas giant" :> 1100) @@
    ("Class V gas giant" :> 1000) @@
    ("Gas giant with water based life" :> 900000) @@
    ("Gas giant with ammonia based life" :> 900000) @@
    ("Helium rich gas giant" :> 900) @@
    ("Helium gas giant" :> 900) @@
    ("Water giant" :> 670) @@
    ("Icy body" :> 500) @@
    ("Rocky ice body" :> 500)

STAR_BASE_VALUES ==
    ("O" :> 4000) @@ ("B" :> 3000) @@ ("A" :> 2500) @@ ("F" :> 2000) @@
    ("G" :> 1500) @@ ("K" :> 1200) @@ ("M" :> 1000) @@ ("L" :> 2500) @@
    ("T" :> 2500) @@ ("Y" :> 2500) @@ ("TTS" :> 2000) @@ ("AeBe" :> 3500) @@
    ("W" :> 15000) @@ ("WN" :> 15000) @@ ("WNC" :> 15000) @@ ("WC" :> 15000) @@
    ("WO" :> 15000) @@ ("MS" :> 20000) @@ ("S" :> 20000) @@ ("C" :> 3000) @@
    ("CN" :> 3000) @@ ("CJ" :> 3000) @@ ("CH" :> 3000) @@ ("CHd" :> 3000) @@
    ("N" :> 22628) @@ ("H" :> 1200) @@ ("X" :> 30000) @@
    ("SupermassiveBlackHole" :> 40000) @@
    ("D" :> 14000) @@ ("DA" :> 14000) @@ ("DAB" :> 14000) @@ ("DAO" :> 14000) @@
    ("DAZ" :> 14000) @@ ("DAV" :> 14000) @@ ("DB" :> 14000) @@ ("DBZ" :> 14000) @@
    ("DBV" :> 14000) @@ ("DO" :> 14000) @@ ("DOV" :> 14000) @@ ("DQ" :> 14000) @@
    ("DC" :> 14000) @@ ("DCV" :> 14000) @@ ("DX" :> 14000)

DEFAULT_VALUE == 500
TERRAFORMABLE_MULTIPLIER == 10
DSS_MULTIPLIER == 5

\* Mutant of calculate_body_value: the DSS multiplier is applied to
\* stars too.
calculate_body_value_StarDss(planet_type, has_dss) ==
    IF Contains(planet_type, "Asteroid Cluster") THEN 0
    ELSE LET base_value ==
                 IF Contains(planet_type, "Star Class")
                 THEN Get(STAR_BASE_VALUES, Strip(Remove(planet_type, "Star Class ")),
                          DEFAULT_VALUE)
                 ELSE IF Contains(planet_type, "Terraformable")
                 THEN Get(PLANET_BASE_VALUES,
                          Strip(Remove(planet_type, " (Terraformable)")),
                          DEFAULT_VALUE) * TERRAFORMABLE_MULTIPLIER
                 ELSE Get(PLANET_BASE_VALUES, planet_type, DEFAULT_VALUE)
         IN IF has_dss THEN base_value * DSS_MULTIPLIER ELSE base_value

\* calculate_body_value(body_data, has_dss), as a function of the body's
\* "type" string, the only key of body_data it reads.
calculate_body_value(planet_type, has_dss) ==
    IF Contains(planet_type, "Asteroid Cluster") THEN 0
    ELSE IF Contains(planet_type, "Star Class")
    THEN Get(STAR_BASE_VALUES, Strip(Remove(planet_type, "Star Class ")), DEFAULT_VALUE)
    ELSE LET looked == Get(PLANET_BASE_VALUES, planet_type, DEFAULT_VALUE)
             base_value ==
                 IF Contains(planet_type, "Terraformable")
                 THEN Get(PLANET_BASE_VALUES,
                          Strip(Remove(planet_type, " (Terraformable)")),
                          DEFAULT_VALUE) * TERRAFORMABLE_MULTIPLIER
                 ELSE looked
         IN IF has_dss THEN base_value * DSS_MULTIPLIER ELSE base_value

\* calculate_system_value(bodies): the sum of the stored "value" fields.
RECURSIVE calculate_system_value(_)
calculate_system_value(bodies) ==
    IF bodies = <<>> THEN 0
    ELSE Head(bodies).value + calculate_system_value(Tail(bodies))

\* ------------------------------------------------------------------
\* Ledger records
\* ------------------------------------------------------------------
\* Python None for a numeric field (a system address).
NoAddress == -1

\* SystemData(name, star_class, system_address); the creation timestamp
\* is left out.  In EDExplorer.py the same fields are attributes of
\* ExplorationState itself.
SystemData(name, star_class, system_address) ==
    [name |-> name, star_class |-> star_class,
     system_address |-> system_address,
     bodies |-> <<>>, total_value |-> 0, dss_used |-> FALSE]

\* current_system is <<>> for None and <<s>> for a SystemData s.
HasCurrent == current_system # <<>>
Cur == current_system[1]

\* Index of the first body called name, 0 if there is none.
FindBody(bodies, name) ==
    IF \E i \in 1..Len(bodies) : bodies[i].name = name
    THEN CHOOSE i \in 1..Len(bodies) :
            /\ bodies[i].name = name
            /\ \A j \in 1..(i - 1) : bodies[j].name # name
    ELSE 0

\* ------------------------------------------------------------------
\* persistence.py
\* ------------------------------------------------------------------
\* data["systems"] of ExplorationCache without a cache file: no entry.
EmptyCache == <<>>

\* str(state.current_system_address), the key of a cache entry.
CacheKey(system_address) ==
    IF system_address = NoAddress THEN "None" ELSE ToString(system_address)

\* Mutant of is_valuable_system: a total of exactly the threshold is not
\* valuable.
is_valuable_system_Above(total_value) == total_value > 1000

\* is_valuable_system(total_value, threshold=1_000)
is_valuable_system(total_value) == total_value >= 1000

\* The flags store_system collects over the bodies, as sorted(flags).
SystemFlags(bodies) ==
    LET flags ==
           { f \in {"BIO", "ELW", "TERRAFORMABLE", "WW", "AW"} :
                \E i \in 1..Len(bodies) :
                   \/ f = "BIO" /\ bodies[i].bio_signals > 0
                   \/ f = "ELW" /\ Contains(bodies[i].type, "Earthlike")
                   \/ f = "TERRAFORMABLE" /\ Contains(bodies[i].type, "Terraformable")
                   \/ f = "WW" /\ Contains(bodies[i].type, "Water world")
                   \/ f = "AW" /\ Contains(bodies[i].type, "Ammonia") }
        IsFlag(f) == f \in flags
    IN SelectSeq(<<"AW", "BIO", "ELW", "TERRAFORMABLE", "WW">>, IsFlag)

\* The entry of a body with a value or with bio signals.
ImportantBody(body) ==
    [name |-> body.name, type |-> body.type, value |-> body.value,
     bio_signals |-> body.bio_signals, geo_signals |-> body.geo_signals,
     landable |-> body.landable, scanned_dss |-> body.scanned_dss,
     terraformable |-> Contains(body.type, "Terraformable")]

RECURSIVE ImportantBodies(_)
ImportantBodies(bodies) ==
    IF bodies = <<>> THEN <<>>
    ELSE (IF Head(bodies).value > 0 \/ Head(bodies).bio_signals > 0
          THEN <<ImportantBody(Head(bodies))>> ELSE <<>>)
         \o ImportantBodies(Tail(bodies))

\* ExplorationCache.store_system(state) on data["systems"], followed by
\* save(); the "visited" time and the two formatted totals of the entry
\* are left out.
store_system(data, state) ==
    LET key == CacheKey(state.system_address)
        total_value == calculate_system_value(state.bodies)
    IN IF ~is_valuable_system(total_value) THEN data
       ELSE (key :> [name |-> state.name,
                     star_class |-> state.star_class,
                     total_value |-> total_value,
                     bodies |-> ImportantBodies(state.bodies),
                     flags |-> SystemFlags(state.bodies)]) @@ data

\* ------------------------------------------------------------------
\* evaluate_planet
\* ------------------------------------------------------------------
\* The "type" both evaluate_planet versions give a scanned body.
BodyType(scan) ==
    LET planet == Get(scan, "PlanetClass", "")
        star_type == Get(scan, "StarType", "")
        terraform == Get(scan, "TerraformState", "")
        body_name == Get(scan, "BodyName", "Unbekannt")
    IN IF Contains(body_name, "Belt Cluster") THEN "Asteroid Cluster"
       ELSE IF star_type # "" THEN "Star Class " \o star_type
       ELSE IF planet = "Earthlike body" THEN "Earthlike World"
       ELSE IF planet = "Water world"
            THEN "Water World" \o (IF terraform = "Terraformable"
                                   THEN " (Terraformable)" ELSE "")
       ELSE IF terraform = "Terraformable" THEN planet \o " (Terraformable)"
       ELSE IF planet = "Ammonia world" THEN "Ammonia World"
       ELSE planet

\* app.py: the value is computed from the final type.
evaluate_planet(scan) ==
    [name |-> Get(scan, "BodyName", "Unbekannt"),
     type |-> BodyType(scan),
     bio_signals |-> 0, geo_signals |-> 0, human_signals |-> 0,
     guardian_signals |-> 0, thargoid_signals |-> 0, other_signals |-> 0,
     distance |-> Get(scan, "DistanceFromArrivalLS", 0),
     landable |-> Get(scan, "Landable", FALSE),
     terraform_state |-> Get(scan, "TerraformState", ""),
     bio_details |-> <<>>, scanned_genomes |-> {},
     scanned_fss |-> FALSE, scanned_dss |-> FALSE,
     value |-> calculate_body_value(BodyType(scan), FALSE)]

\* EDExplorer.py: the value is computed from the raw PlanetClass, before
\* the type is rewritten; the body has no terraform_state, bio_details or
\* scanned_genomes key (kept here with their empty values).
ED_evaluate_planet(scan) ==
    [name |-> Get(scan, "BodyName", "Unbekannt"),
     type |-> BodyType(scan),
     bio_signals |-> 0, geo_signals |-> 0, human_signals |-> 0,
     guardian_signals |-> 0, thargoid_signals |-> 0, other_signals |-> 0,
     distance |-> Get(scan, "DistanceFromArrivalLS", 0),
     landable |-> Get(scan, "Landable", FALSE),
     terraform_state |-> "",
     bio_details |-> <<>>, scanned_genomes |-> {},
     scanned_fss |-> FALSE, scanned_dss |-> FALSE,
     value |-> calculate_body_value(Get(scan, "PlanetClass", ""), FALSE)]

\* ------------------------------------------------------------------
\* add_body
\* ------------------------------------------------------------------
\* Mutants of MergeBody: the scan flags of the existing body are not
\* carried over; the genus names of the existing body are not carried
\* over; the scanned genomes of the existing body are not carried over.
MergeBody_NoFlags(body, body_data) ==
    [body_data EXCEPT
        !.bio_signals = IF body.bio_signals # 0 THEN body.bio_signals ELSE @,
        !.geo_signals = IF body.geo_signals # 0 THEN body.geo_signals ELSE @,
        !.human_signals = IF body.human_signals # 0 THEN body.human_signals ELSE @,
        !.guardian_signals = IF body.guardian_signals # 0 THEN body.guardian_signals ELSE @,
        !.thargoid_signals = IF body.thargoid_signals # 0 THEN body.thargoid_signals ELSE @,
        !.other_signals = IF body.other_signals # 0 THEN body.other_signals ELSE @,
        !.bio_details = IF body.bio_details # <<>> THEN body.bio_details ELSE @,
        !.scanned_genomes = IF body.scanned_genomes # {} THEN body.scanned_genomes ELSE @]

MergeBody_NoDetails(body, body_data) ==
    [body_data EXCEPT
        !.bio_signals = IF body.bio_signals # 0 THEN body.bio_signals ELSE @,
        !.geo_signals = IF body.geo_signals # 0 THEN body.geo_signals ELSE @,
        !.human_signals = IF body.human_signals # 0 THEN body.human_signals ELSE @,
        !.guardian_signals = IF body.guardian_signals # 0 THEN body.guardian_signals ELSE @,
        !.thargoid_signals = IF body.thargoid_signals # 0 THEN body.thargoid_signals ELSE @,
        !.other_signals = IF body.other_signals # 0 THEN body.other_signals ELSE @,
        !.scanned_fss = IF body.scanned_fss THEN body.scanned_fss ELSE @,
        !.scanned_dss = IF body.scanned_dss THEN body.scanned_dss ELSE @]

MergeBody_NoGenomes(body, body_data) ==
    [body_data EXCEPT
        !.bio_signals = IF body.bio_signals # 0 THEN body.bio_signals ELSE @,
        !.geo_signals = IF body.geo_signals # 0 THEN body.geo_signals ELSE @,
        !.human_signals = IF body.human_signals # 0 THEN body.human_signals ELSE @,
        !.guardian_signals = IF body.guardian_signals # 0 THEN body.guardian_signals ELSE @,
        !.thargoid_signals = IF body.thargoid_signals # 0 THEN body.thargoid_signals ELSE @,
        !.other_signals = IF body.other_signals # 0 THEN body.other_signals ELSE @,
        !.scanned_fss = IF body.scanned_fss THEN body.scanned_fss ELSE @,
        !.scanned_dss = IF body.scanned_dss THEN body.scanned_dss ELSE @,
        !.bio_details = IF body.bio_details # <<>> THEN body.bio_details ELSE @]

\* app.py, the merge into an existing body: each history key of the
\* existing body that is truthy replaces the key of the incoming payload.
MergeBody(body, body_data) ==
    [body_data EXCEPT
        !.bio_signals = IF body.bio_signals # 0 THEN body.bio_signals ELSE @,
        !.geo_signals = IF body.geo_signals # 0 THEN body.geo_signals ELSE @,
        !.human_signals = IF body.human_signals # 0 THEN body.human_signals ELSE @,
        !.guardian_signals = IF body.guardian_signals # 0 THEN body.guardian_signals ELSE @,
        !.thargoid_signals = IF body.thargoid_signals # 0 THEN body.thargoid_signals ELSE @,
        !.other_signals = IF body.other_signals # 0 THEN body.other_signals ELSE @,
        !.scanned_fss = IF body.scanned_fss THEN body.scanned_fss ELSE @,
        !.scanned_dss = IF body.scanned_dss THEN body.scanned_dss ELSE @,
        !.bio_details = IF body.bio_details # <<>> THEN body.bio_details ELSE @,
        !.scanned_genomes = IF body.scanned_genomes # {} THEN body.scanned_genomes ELSE @]

\* EDExplorer.py, the merge: signal counts > 0 and set scan flags are
\* restored onto the incoming payload.
ED_MergeBody(body, body_data) ==
    [body_data EXCEPT
        !.bio_signals = IF body.bio_signals > 0 THEN body.bio_signals ELSE @,
        !.geo_signals = IF body.geo_signals > 0 THEN body.geo_signals ELSE @,
        !.human_signals = IF body.human_signals > 0 THEN body.human_signals ELSE @,
        !.guardian_signals = IF body.guardian_signals > 0 THEN body.guardian_signals ELSE @,
        !.thargoid_signals = IF body.thargoid_signals > 0 THEN body.thargoid_signals ELSE @,
        !.other_signals = IF body.other_signals > 0 THEN body.other_signals ELSE @,
        !.scanned_fss = IF body.scanned_fss THEN body.scanned_fss ELSE @,
        !.scanned_dss = IF body.scanned_dss THEN body.scanned_dss ELSE @]

\* The value add_body stores with a body.
WithValue(body) ==
    [body EXCEPT !.value = calculate_body_value(body.type, body.scanned_dss)]

\* The total add_body stores with the system.
WithTotal(sys) ==
    [sys EXCEPT !.total_value = calculate_system_value(sys.bodies)]

\* Mutant of add_body: the body is appended without looking for its name.
add_body_Append(sys, body_data) ==
    WithTotal([sys EXCEPT !.bodies = Append(sys.bodies, WithValue(body_data))])

\* ExplorationState.add_body of app.py on the current system sys.
add_body(sys, body_data) ==
    LET i == FindBody(sys.bodies, body_data.name)
    IN IF i > 0
       THEN WithTotal([sys EXCEPT !.bodies[i] =
                          WithValue(MergeBody(sys.bodies[i], body_data))])
       ELSE WithTotal([sys EXCEPT !.bodies =
                          Append(sys.bodies, WithValue(body_data))])

\* ExplorationState.add_body of EDExplorer.py.
ED_add_body(sys, body_data) ==
    LET i == FindBody(sys.bodies, body_data.name)
    IN IF i > 0
       THEN WithTotal([sys EXCEPT !.bodies[i] =
                          WithValue(ED_MergeBody(sys.bodies[i], body_data))])
       ELSE WithTotal([sys EXCEPT !.bodies =
                          Append(sys.bodies, WithValue(body_data))])

\* ------------------------------------------------------------------
\* Signal events
\* ------------------------------------------------------------------
ZeroCounts ==
    [bio |-> 0, geo |-> 0, human |-> 0, guardian |-> 0, thargoid |-> 0, other |-> 0]

\* The loop over event["Signals"]: the first matching category of an entry
\* takes the entry's count, an unmatched entry adds to "other".  The
\* loops of EDExplorer.py match the same strings.
RECURSIVE CountSignals(_, _)
CountSignals(signals, counts) ==
    IF signals = <<>> THEN counts
    ELSE LET st == Get(Head(signals), "Type", "")
             c == Get(Head(signals), "Count", 0)
         IN CountSignals(Tail(signals),
              IF Contains(st, "Biological") THEN [counts EXCEPT !.bio = c]
              ELSE IF Contains(st, "Geological") THEN [counts EXCEPT !.geo = c]
              ELSE IF Contains(st, "Human") THEN [counts EXCEPT !.human = c]
              ELSE IF Contains(st, "Guardian") THEN [counts EXCEPT !.guardian = c]
              ELSE IF Contains(st, "Thargoid") THEN [counts EXCEPT !.thargoid = c]
              ELSE [counts EXCEPT !.other = @ + c])

\* Mutant of AnyCount: a placeholder is wanted whatever the counts are.
AnyCount_Always(counts) == TRUE

\* any(counts.values())
AnyCount(counts) == \E k \in DOMAIN counts : counts[k] # 0

\* The genus names of event["Genuses"], in order.
RECURSIVE GenusNames(_)
GenusNames(genuses) ==
    IF genuses = <<>> THEN <<>>
    ELSE <<Get(Head(genuses), "Genus_Localised",
               Get(Head(genuses), "Genus", "Unknown"))>>
         \o GenusNames(Tail(genuses))

\* Appends to details each genome of bio_details it does not hold yet.
RECURSIVE AddDetails(_, _)
AddDetails(details, bio_details) ==
    IF bio_details = <<>> THEN details
    ELSE AddDetails(
            IF \E i \in 1..Len(details) : details[i] = Head(bio_details)
            THEN details ELSE Append(details, Head(bio_details)),
            Tail(bio_details))

\* Mutant of SetCounts: the counts are added to those of the body.
SetCounts_Accumulate(body, counts) ==
    [body EXCEPT !.bio_signals = @ + counts.bio, !.geo_signals = @ + counts.geo,
                 !.human_signals = @ + counts.human,
                 !.guardian_signals = @ + counts.guardian,
                 !.thargoid_signals = @ + counts.thargoid,
                 !.other_signals = @ + counts.other]

\* The six counts of a signal event written over those of a body.
SetCounts(body, counts) ==
    [body EXCEPT !.bio_signals = counts.bio, !.geo_signals = counts.geo,
                 !.human_signals = counts.human,
                 !.guardian_signals = counts.guardian,
                 !.thargoid_signals = counts.thargoid,
                 !.other_signals = counts.other]

\* The placeholder body a signal event creates for an unseen body.
Placeholder(body_name, counts, bio_details) ==
    [name |-> body_name, type |-> "Unbekannt",
     bio_signals |-> counts.bio, geo_signals |-> counts.geo,
     human_signals |-> counts.human, guardian_signals |-> counts.guardian,
     thargoid_signals |-> counts.thargoid, other_signals |-> counts.other,
     distance |-> 0, landable |-> FALSE, terraform_state |-> "",
     bio_details |-> bio_details, scanned_genomes |-> {},
     scanned_fss |-> FALSE, scanned_dss |-> FALSE, value |-> 0]

\* Mutant of handle_signals: the placeholder is added without looking
\* for a body of that name.
handle_signals_NoLookup(sys, event) ==
    LET body_name == Get(event, "BodyName", "")
        counts == CountSignals(Get(event, "Signals", <<>>), ZeroCounts)
        bio_details == GenusNames(Get(event, "Genuses", <<>>))
    IN IF AnyCount(counts)
       THEN WithTotal([sys EXCEPT !.bodies =
               Append(@, WithValue(Placeholder(body_name, counts, bio_details)))])
       ELSE sys

\* Mutant of handle_signals: only the first entry of Signals is counted.
handle_signals_FirstEntry(sys, event) ==
    LET body_name == Get(event, "BodyName", "")
        signals == Get(event, "Signals", <<>>)
        counts == CountSignals(IF signals = <<>> THEN <<>> ELSE <<Head(signals)>>,
                               ZeroCounts)
        bio_details == GenusNames(Get(event, "Genuses", <<>>))
        i == FindBody(sys.bodies, body_name)
    IN IF i > 0
       THEN [sys EXCEPT !.bodies[i] =
               [SetCounts(@, counts) EXCEPT
                   !.bio_details = AddDetails(@, bio_details)]]
       ELSE IF AnyCount(counts)
       THEN add_body(sys, Placeholder(body_name, counts, bio_details))
       ELSE sys

\* ExplorerApp.handle_signals of app.py on the current system sys.
handle_signals(sys, event) ==
    LET body_name == Get(event, "BodyName", "")
        counts == CountSignals(Get(event, "Signals", <<>>), ZeroCounts)
        bio_details == GenusNames(Get(event, "Genuses", <<>>))
        i == FindBody(sys.bodies, body_name)
    IN IF i > 0
       THEN [sys EXCEPT !.bodies[i] =
               [SetCounts(@, counts) EXCEPT
                   !.bio_details = AddDetails(@, bio_details)]]
       ELSE IF AnyCount(counts)
       THEN add_body(sys, Placeholder(body_name, counts, bio_details))
       ELSE sys

\* The FSSBodySignals and SAASignalsFound branches of handle_event of
\* EDExplorer.py (the two are the same code); Genuses are not read.
ED_handle_signals(sys, event) ==
    LET body_name == Get(event, "BodyName", "Unbekannt")
        counts == CountSignals(Get(event, "Signals", <<>>), ZeroCounts)
        i == FindBody(sys.bodies, body_name)
    IN IF i > 0
       THEN [sys EXCEPT !.bodies[i] = SetCounts(@, counts)]
       ELSE IF AnyCount(counts)
       THEN ED_add_body(sys, Placeholder(body_name, counts, <<>>))
       ELSE sys

\* ------------------------------------------------------------------
\* Surface scan completion and organic scan
\* ------------------------------------------------------------------
\* Mutant of MarkDss: the flag is set, the value is not recomputed.
MarkDss_StaleValue(body) == [body EXCEPT !.scanned_dss = TRUE]

\* What SAAScanComplete does to a body it names.
MarkDss(body) ==
    [body EXCEPT !.scanned_dss = TRUE,
                 !.value = calculate_body_value(body.type, TRUE)]

\* Mutant of saa_scan_complete: dss_used is set only when a body has
\* the name.
saa_scan_complete_OnlyIfFound(sys, event) ==
    LET body_name == Get(event, "BodyName", None)
    IN WithTotal([sys EXCEPT
          !.dss_used = @ \/ FindBody(sys.bodies, body_name) > 0,
          !.bodies = [i \in 1..Len(sys.bodies) |->
                         IF sys.bodies[i].name = body_name
                         THEN MarkDss(sys.bodies[i]) ELSE sys.bodies[i]]])

\* Mutant of saa_scan_complete: a surface scan of a body the system does
\* not hold is remembered as a mapped placeholder of that name.
saa_scan_complete_Remember(sys, event) ==
    LET body_name == Get(event, "BodyName", None)
        marked == [sys EXCEPT
                      !.dss_used = TRUE,
                      !.bodies = [i \in 1..Len(sys.bodies) |->
                                     IF sys.bodies[i].name = body_name
                                     THEN MarkDss(sys.bodies[i]) ELSE sys.bodies[i]]]
    IN WithTotal(IF FindBody(sys.bodies, body_name) > 0 THEN marked
                 ELSE [marked EXCEPT !.bodies =
                          Append(@, MarkDss(Placeholder(body_name, ZeroCounts, <<>>)))])

\* app.py: every body with the name is marked, then the total is summed.
saa_scan_complete(sys, event) ==
    LET body_name == Get(event, "BodyName", None)
    IN WithTotal([sys EXCEPT
          !.dss_used = TRUE,
          !.bodies = [i \in 1..Len(sys.bodies) |->
                         IF sys.bodies[i].name = body_name
                         THEN MarkDss(sys.bodies[i]) ELSE sys.bodies[i]]])

\* EDExplorer.py: the first body with the name is marked; the function
\* ends there, total_value is not touched.
ED_saa_scan_complete(sys, event) ==
    LET i == FindBody(sys.bodies, Get(event, "BodyName", "Unbekannt"))
    IN IF i > 0
       THEN [sys EXCEPT !.dss_used = TRUE, !.bodies[i] = MarkDss(@)]
       ELSE [sys EXCEPT !.dss_used = TRUE]

\* app.py, ScanOrganic: the genus of the event.
OrganicGenus(event) ==
    Get(event, "Genus_Localised", Get(event, "Genus", "Unknown"))

\* Mutant of scan_organic: every body of the system gets the genus.
scan_organic_AllBodies(sys, event) ==
    [sys EXCEPT !.bodies =
        [i \in 1..Len(sys.bodies) |->
            [sys.bodies[i] EXCEPT !.scanned_genomes = @ \cup {OrganicGenus(event)}]]]

\* app.py, ScanOrganic on the current system: the first body with the
\* name gets the genus.
scan_organic(sys, event) ==
    LET body_name == Get(event, "Body", None)
        i == FindBody(sys.bodies, body_name)
    IN IF body_name # None /\ body_name # "" /\ i > 0
       THEN [sys EXCEPT !.bodies[i].scanned_genomes = @ \cup {OrganicGenus(event)}]
       ELSE sys

\* ------------------------------------------------------------------
\* Arrival and route
\* ------------------------------------------------------------------
\* Mutant of new_system: the current system is archived although it has
\* no bodies.
new_system_ArchiveEmpty(cur, archived, name, star_class, system_address) ==
    [systems |-> IF cur # <<>> THEN <<cur[1]>> \o archived ELSE archived,
     current_system |-> <<SystemData(name, star_class, system_address)>>]

\* Mutant of new_system: the departed system is put at the end of
\* systems.
new_system_ArchiveLast(cur, archived, name, star_class, system_address) ==
    [systems |-> IF cur # <<>> /\ Len(cur[1].bodies) > 0
                 THEN Append(archived, cur[1]) ELSE archived,
     current_system |-> <<SystemData(name, star_class, system_address)>>]

\* ExplorationState.new_system of app.py: a populated current system is
\* put at the front of systems, then a fresh SystemData is installed.
new_system(cur, archived, name, star_class, system_address) ==
    [systems |-> IF cur # <<>> /\ Len(cur[1].bodies) > 0
                 THEN <<cur[1]>> \o archived ELSE archived,
     current_system |-> <<SystemData(name, star_class, system_address)>>]

\* The FSDJump and Location branches of handle_event of EDExplorer.py:
\* both reset bodies and total_value, only FSDJump resets dss_used.
ED_arrival(sys, event) ==
    [sys EXCEPT !.name = Get(event, "StarSystem", "Unbekannt"),
                !.star_class = Get(event, "StarClass", None),
                !.system_address = Get(event, "SystemAddress", NoAddress),
                !.total_value = 0,
                !.bodies = <<>>,
                !.dss_used = IF event.event = "FSDJump" THEN FALSE ELSE @]

NoRoute ==
    [next_route_system |-> None, next_route_star_class |-> None,
     remaining_jumps |-> 0]

\* Index of the first route entry with the address, 0 if there is none.
RouteIndex(route, address) ==
    IF \E i \in 1..Len(route) : Get(route[i], "SystemAddress", NoAddress) = address
    THEN CHOOSE i \in 1..Len(route) :
            /\ Get(route[i], "SystemAddress", NoAddress) = address
            /\ \A j \in 1..(i - 1) : Get(route[j], "SystemAddress", NoAddress) # address
    ELSE 0

\* Mutants of update_route: the remaining jumps are counted one short; a
\* route without a next system keeps the next system computed before; an
\* unreadable snapshot keeps the fields computed before.
update_route_OffByOne(old, address, status, nav) ==
    IF status.exists /\ ~status.ok THEN NoRoute
    ELSE LET destination_address ==
                 IF status.exists
                 THEN Get(Get(status.data, "Destination", <<>>), "System", NoAddress)
                 ELSE NoAddress
         IN IF nav.exists /\ destination_address # NoAddress /\ destination_address # 0
            THEN IF ~nav.ok THEN NoRoute
                 ELSE LET route == Get(nav.data, "Route", <<>>)
                          current_index == RouteIndex(route, address)
                          jumps == IF current_index > 0
                                   THEN Len(route) - current_index - 1
                                   ELSE Len(route)
                          hit == IF destination_address # address
                                 THEN RouteIndex(route, destination_address) ELSE 0
                      IN IF hit > 0
                         THEN [next_route_system |-> Get(route[hit], "StarSystem", "Unbekannt"),
                               next_route_star_class |-> Get(route[hit], "StarClass", None),
                               remaining_jumps |-> jumps]
                         ELSE [next_route_system |-> None,
                               next_route_star_class |-> None,
                               remaining_jumps |-> jumps]
            ELSE NoRoute

update_route_KeepNext(old, address, status, nav) ==
    IF status.exists /\ ~status.ok THEN NoRoute
    ELSE LET destination_address ==
                 IF status.exists
                 THEN Get(Get(status.data, "Destination", <<>>), "System", NoAddress)
                 ELSE NoAddress
         IN IF nav.exists /\ destination_address # NoAddress /\ destination_address # 0
            THEN IF ~nav.ok THEN NoRoute
                 ELSE LET route == Get(nav.data, "Route", <<>>)
                          current_index == RouteIndex(route, address)
                          jumps == IF current_index > 0
                                   THEN Len(route) - current_index
                                   ELSE Len(route)
                          hit == IF destination_address # address
                                 THEN RouteIndex(route, destination_address) ELSE 0
                      IN IF hit > 0
                         THEN [next_route_system |-> Get(route[hit], "StarSystem", "Unbekannt"),
                               next_route_star_class |-> Get(route[hit], "StarClass", None),
                               remaining_jumps |-> jumps]
                         ELSE [old EXCEPT !.remaining_jumps = jumps]
            ELSE NoRoute

update_route_StaleOnError(old, address, status, nav) ==
    IF status.exists /\ ~status.ok THEN old
    ELSE LET destination_address ==
                 IF status.exists
                 THEN Get(Get(status.data, "Destination", <<>>), "System", NoAddress)
                 ELSE NoAddress
         IN IF nav.exists /\ destination_address # NoAddress /\ destination_address # 0
            THEN IF ~nav.ok THEN old
                 ELSE LET route == Get(nav.data, "Route", <<>>)
                          current_index == RouteIndex(route, address)
                          jumps == IF current_index > 0
                                   THEN Len(route) - current_index
                                   ELSE Len(route)
                          hit == IF destination_address # address
                                 THEN RouteIndex(route, destination_address) ELSE 0
                      IN IF hit > 0
                         THEN [next_route_system |-> Get(route[hit], "StarSystem", "Unbekannt"),
                               next_route_star_class |-> Get(route[hit], "StarClass", None),
                               remaining_jumps |-> jumps]
                         ELSE [next_route_system |-> None,
                               next_route_star_class |-> None,
                               remaining_jumps |-> jumps]
            ELSE NoRoute

\* ExplorationState.update_route (the same code in both programs), for the
\* current system address and the two snapshot files as they are when it
\* runs.  A file is [exists, ok, data]: ok is false when json.load raises.
update_route(old, address, status, nav) ==
    IF status.exists /\ ~status.ok THEN NoRoute
    ELSE LET destination_address ==
                 IF status.exists
                 THEN Get(Get(status.data, "Destination", <<>>), "System", NoAddress)
                 ELSE NoAddress
         IN IF nav.exists /\ destination_address # NoAddress /\ destination_address # 0
            THEN IF ~nav.ok THEN NoRoute
                 ELSE LET route == Get(nav.data, "Route", <<>>)
                          current_index == RouteIndex(route, address)
                          jumps == IF current_index > 0
                                   THEN Len(route) - current_index
                                   ELSE Len(route)
                          hit == IF destination_address # address
                                 THEN RouteIndex(route, destination_address) ELSE 0
                      IN IF hit > 0
                         THEN [next_route_system |-> Get(route[hit], "StarSystem", "Unbekannt"),
                               next_route_star_class |-> Get(route[hit], "StarClass", None),
                               remaining_jumps |-> jumps]
                         ELSE [next_route_system |-> None,
                               next_route_star_class |-> None,
                               remaining_jumps |-> jumps]
            ELSE NoRoute

\* ------------------------------------------------------------------
\* Inputs
\* ------------------------------------------------------------------
StarSystems ==
    { [StarSystem |-> "Sol", StarClass |-> "G", SystemAddress |-> 1],
      [StarSystem |-> "Alpha Centauri", StarClass |-> "K", SystemAddress |-> 2] }

ArrivalEvents ==
    { [event |-> e, StarSystem |-> s.StarSystem, StarClass |-> s.StarClass,
       SystemAddress |-> s.SystemAddress] :
         e \in {"FSDJump", "Location"}, s \in StarSystems }

\* Status.json and NavRoute.json as update_route finds them.
StatusFiles ==
    { [exists |-> FALSE, ok |-> FALSE, data |-> <<>>],
      [exists |-> TRUE, ok |-> TRUE,
       data |-> [Destination |-> [System |-> 2]]] }

NavRouteFiles ==
    { [exists |-> TRUE, ok |-> TRUE,
       data |-> [Route |-> << [StarSystem |-> "Sol", StarClass |-> "G", SystemAddress |-> 1],
                              [StarSystem |-> "Alpha Centauri", StarClass |-> "K", SystemAddress |-> 2] >>]] }

BodyNames == {"Sol A", "Sol B"}

ScanEvents ==
    { [event |-> "Scan", ScanType |-> "Detailed", BodyName |-> n,
       PlanetClass |-> "Earthlike body", TerraformState |-> "",
       DistanceFromArrivalLS |-> 500, Landable |-> FALSE] : n \in BodyNames }
    \cup
    { [event |-> "Scan", ScanType |-> "AutoScan", BodyName |-> n,
       PlanetClass |-> "Rocky body", TerraformState |-> "",
       DistanceFromArrivalLS |-> 20, Landable |-> TRUE] : n \in BodyNames }
    \cup
    { [event |-> "Scan", ScanType |-> "Detailed", BodyName |-> n,
       PlanetClass |-> "Water world", TerraformState |-> "Terraformable",
       DistanceFromArrivalLS |-> 900, Landable |-> FALSE] : n \in {"Sol B"} }
    \cup
    { [event |-> "Scan", ScanType |-> "Basic", BodyName |-> n,
       StarType |-> "G", DistanceFromArrivalLS |-> 0] : n \in {"Sol A"} }
    \cup
    { [event |-> "Scan", ScanType |-> "NavBeaconDetail",
       BodyName |-> "Sol A Belt Cluster 1", DistanceFromArrivalLS |-> 30] }

SignalEvents ==
    { [event |-> "FSSBodySignals", BodyName |-> n,
       Signals |-> << [Type |-> "$SAA_SignalType_Biological;", Count |-> 2] >>] :
         n \in BodyNames }
    \cup
    { [event |-> "FSSBodySignals", BodyName |-> n,
       Signals |-> << [Type |-> "$SAA_SignalType_Geological;", Count |-> 1] >>] :
         n \in BodyNames }
    \cup
    { [event |-> "SAASignalsFound", BodyName |-> n,
       Signals |-> << [Type |-> "$SAA_SignalType_Biological;", Count |-> 2] >>,
       Genuses |-> << [Genus |-> "$Codex_Ent_Bacterial_Genus_Name;",
                       Genus_Localised |-> "Bacterium"] >>] :
         n \in BodyNames }
    \cup
    { [event |-> "SAASignalsFound", BodyName |-> n, Signals |-> <<>>,
       Genuses |-> <<>>] : n \in BodyNames }

ScanCompleteEvents ==
    { [event |-> "SAAScanComplete", BodyName |-> n] :
         n \in BodyNames \cup {"Sol C"} }

OrganicEvents ==
    { [event |-> "ScanOrganic", Body |-> n,
       Genus |-> "$Codex_Ent_Bacterial_Genus_Name;",
       Genus_Localised |-> "Bacterium"] : n \in BodyNames }

\* The lines that can be in the journal before the program starts.
BootLines == { e \in ArrivalEvents : e.SystemAddress = 1 }

RECURSIVE SeqsUpTo(_, _)
SeqsUpTo(S, n) ==
    IF n = 0 THEN { <<>> }
    ELSE SeqsUpTo(S, n - 1) \cup
         { Append(q, x) : q \in { r \in SeqsUpTo(S, n - 1) : Len(r) = n - 1 }, x \in S }

\* The line `last` holds before any line was read.
NoLine == [event |-> "None"]

\* ------------------------------------------------------------------
\* State machine
\* ------------------------------------------------------------------
\* variant: which program runs, "app" (app.py) or "legacy" (EDExplorer.py).
\* pc: "boot" before the bootstrap scan of the journal, "watch" in the
\* tail loop.  last: the line the tail loop applied last.  repeated:
\* whether that line is the same record as the line before it.  refreshed:
\* whether that line was followed by a UI refresh.  lines: the number of
\* lines applied so far.  system_signals: the list of that name of
\* EDExplorer.py, which app.py does not have.
InitLedger ==
    /\ variant \in {"app", "legacy"}
    /\ pc = "boot"
    /\ current_system = IF variant = "app" THEN <<>>
                        ELSE <<SystemData("Unbekannt", None, NoAddress)>>
    /\ systems = <<>>
    /\ next_route_system = None
    /\ next_route_star_class = None
    /\ remaining_jumps = 0
    /\ last = NoLine
    /\ repeated = FALSE
    /\ refreshed = FALSE
    /\ lines = 0
    /\ system_signals = <<>>

\* journal_file: the journal as the game has written it.  tailed: the
\* file is written while the program runs (the specification SpecJournal);
\* otherwise the lines are inputs of the tail loop and the file is left
\* out.  boot: the number of complete lines in the file when the program
\* starts.  lines: the complete lines.  part: <<>>, or the one line whose
\* beginning the game has written without its end.
NoJournal == [tailed |-> FALSE, boot |-> 0, lines |-> <<>>, part |-> <<>>]

\* reader: the file object of the tail loop.  open: the file is open and
\* positioned.  pos: the number of complete lines before the position.
\* mid: the position is inside the line after them.  applied: the numbers
\* of the lines given to handle_event so far.
NoReader == [open |-> FALSE, pos |-> 0, mid |-> FALSE, applied |-> <<>>]

\* The first start: there is no cache file.
Init ==
    /\ InitLedger
    /\ cache = EmptyCache
    /\ rendered = <<>>
    /\ journal_file = NoJournal
    /\ reader = NoReader

RouteFields ==
    [next_route_system |-> next_route_system,
     next_route_star_class |-> next_route_star_class,
     remaining_jumps |-> remaining_jumps]

SetRoute(r) ==
    /\ next_route_system' = r.next_route_system
    /\ next_route_star_class' = r.next_route_star_class
    /\ remaining_jumps' = r.remaining_jumps

\* Index of the last "Location" line of the journal, 0 if there is none.
LastLocation(journal) ==
    IF \E i \in 1..Len(journal) : journal[i].event = "Location"
    THEN CHOOSE i \in 1..Len(journal) :
            /\ journal[i].event = "Location"
            /\ \A j \in (i + 1)..Len(journal) : journal[j].event # "Location"
    ELSE 0

\* initialize_state (app.py) and initialize_state_from_files followed by
\* update_route (EDExplorer.py): the journal is read backward up to the
\* first Location line.
Bootstrap(journal, status, nav) ==
    /\ pc = "boot"
    /\ pc' = "watch"
    /\ LET i == LastLocation(journal)
       IN IF i = 0
          THEN UNCHANGED ledger
          ELSE LET event == journal[i]
                   name == Get(event, "StarSystem", "Unbekannt")
                   star_class == Get(event, "StarClass", None)
                   address == Get(event, "SystemAddress", NoAddress)
               IN /\ IF variant = "app"
                     THEN LET r == new_system(current_system, systems,
                                              name, star_class, address)
                          IN /\ current_system' = r.current_system
                             /\ systems' = r.systems
                     ELSE /\ current_system' =
                                <<[Cur EXCEPT !.name = name,
                                              !.star_class = star_class,
                                              !.system_address = address]>>
                          /\ UNCHANGED systems
                  /\ SetRoute(update_route(RouteFields, address, status, nav))
    /\ UNCHANGED <<variant, last, repeated, refreshed, lines, cache, rendered,
                   system_signals, journal_file, reader>>

\* f.readline() returns the complete line `line`: with the file written
\* while the program runs it is the line behind the position, which moves
\* past it.
ReadLine(line) ==
    IF ~journal_file.tailed
    THEN UNCHANGED <<journal_file, reader>>
    ELSE /\ reader.open
         /\ ~reader.mid
         /\ reader.pos < Len(journal_file.lines)
         /\ line = journal_file.lines[reader.pos + 1]
         /\ reader' = [reader EXCEPT !.pos = @ + 1,
                                     !.applied = Append(@, reader.pos + 1)]
         /\ UNCHANGED journal_file

\* The tail loop has read one more line and handle_event has returned.
LineRead(event, result) ==
    /\ pc = "watch"
    /\ lines < MaxLines
    /\ ReadLine(event)
    /\ lines' = lines + 1
    /\ last' = event
    /\ repeated' = (event = last)
    /\ refreshed' = result
    /\ UNCHANGED <<variant, pc, rendered>>

\* The same for a handler that does not call the cache.
Applied(event, result) ==
    /\ LineRead(event, result)
    /\ UNCHANGED <<cache, system_signals>>

\* Mutant of Arrival: the route is recomputed before the new system is
\* installed, against the address of the system that is left.
Arrival_RouteFirst(event, status, nav) ==
    /\ Applied(event, TRUE)
    /\ LET address == Get(event, "SystemAddress", NoAddress)
       IN /\ IF variant = "app"
             THEN LET r == new_system(current_system, systems,
                                      Get(event, "StarSystem", "Unbekannt"),
                                      Get(event, "StarClass", None), address)
                  IN /\ current_system' = r.current_system
                     /\ systems' = r.systems
             ELSE /\ current_system' = <<ED_arrival(Cur, event)>>
                  /\ UNCHANGED systems
          /\ SetRoute(IF HasCurrent
                      THEN update_route(RouteFields, Cur.system_address, status, nav)
                      ELSE RouteFields)

\* FSDJump or Location.
Arrival(event, status, nav) ==
    /\ Applied(event, TRUE)
    /\ LET address == Get(event, "SystemAddress", NoAddress)
       IN /\ IF variant = "app"
             THEN LET r == new_system(current_system, systems,
                                      Get(event, "StarSystem", "Unbekannt"),
                                      Get(event, "StarClass", None), address)
                  IN /\ current_system' = r.current_system
                     /\ systems' = r.systems
             ELSE /\ current_system' = <<ED_arrival(Cur, event)>>
                  /\ UNCHANGED systems
          /\ SetRoute(update_route(RouteFields, address, status, nav))

\* Mutant of Scan: the body is looked up in the archived systems first
\* and merged into the newest of them when it has a body of that name.
Scan_IntoArchive(event) ==
    /\ Get(event, "ScanType", "") \in {"Detailed", "AutoScan", "Basic", "NavBeaconDetail"}
    /\ Applied(event, TRUE)
    /\ IF /\ variant = "app"
          /\ HasCurrent
          /\ systems # <<>>
          /\ FindBody(systems[1].bodies, Get(event, "BodyName", "Unbekannt")) > 0
       THEN /\ systems' = [systems EXCEPT ![1] =
                   add_body(@, [evaluate_planet(event) EXCEPT !.scanned_fss = TRUE])]
            /\ UNCHANGED current_system
       ELSE /\ current_system' =
                  IF variant = "app"
                  THEN IF HasCurrent
                       THEN <<add_body(Cur, [evaluate_planet(event) EXCEPT !.scanned_fss = TRUE])>>
                       ELSE current_system
                  ELSE <<ED_add_body(Cur, [ED_evaluate_planet(event) EXCEPT !.scanned_fss = TRUE])>>
            /\ UNCHANGED systems
    /\ UNCHANGED <<next_route_system, next_route_star_class, remaining_jumps>>

\* Scan with an allow-listed ScanType.
Scan(event) ==
    /\ Get(event, "ScanType", "") \in {"Detailed", "AutoScan", "Basic", "NavBeaconDetail"}
    /\ Applied(event, TRUE)
    /\ IF variant = "app"
       THEN current_system' =
               IF HasCurrent
               THEN <<add_body(Cur, [evaluate_planet(event) EXCEPT !.scanned_fss = TRUE])>>
               ELSE current_system
       ELSE current_system' =
               <<ED_add_body(Cur, [ED_evaluate_planet(event) EXCEPT !.scanned_fss = TRUE])>>
    /\ UNCHANGED <<systems, next_route_system, next_route_star_class, remaining_jumps>>

\* Mutant of Signals: without a current system app.py makes one, as
\* EDExplorer.py starts with one, to hold the body.
Signals_CreateSystem(event) ==
    /\ Applied(event, TRUE)
    /\ IF variant = "app"
       THEN current_system' =
               <<handle_signals(IF HasCurrent THEN Cur
                                ELSE SystemData("Unbekannt", None, NoAddress), event)>>
       ELSE current_system' = <<ED_handle_signals(Cur, event)>>
    /\ UNCHANGED <<systems, next_route_system, next_route_star_class, remaining_jumps>>

\* FSSBodySignals or SAASignalsFound.
Signals(event) ==
    /\ Applied(event, TRUE)
    /\ IF variant = "app"
       THEN current_system' =
               IF HasCurrent THEN <<handle_signals(Cur, event)>> ELSE current_system
       ELSE current_system' = <<ED_handle_signals(Cur, event)>>
    /\ UNCHANGED <<systems, next_route_system, next_route_star_class, remaining_jumps>>

\* SAAScanComplete: app.py returns True, EDExplorer.py runs off the end of
\* handle_event and returns None.
ScanComplete(event) ==
    /\ Applied(event, variant = "app")
    /\ IF variant = "app"
       THEN current_system' =
               IF HasCurrent THEN <<saa_scan_complete(Cur, event)>> ELSE current_system
       ELSE current_system' = <<ED_saa_scan_complete(Cur, event)>>
    /\ UNCHANGED <<systems, next_route_system, next_route_star_class, remaining_jumps>>

\* ScanOrganic: handled by app.py only, which returns True when a body was
\* found; EDExplorer.py has no branch for it.
ScanOrganic(event) ==
    /\ LET found == /\ variant = "app"
                    /\ HasCurrent
                    /\ Get(event, "Body", None) \notin {None, ""}
                    /\ FindBody(Cur.bodies, Get(event, "Body", None)) > 0
       IN /\ Applied(event, found)
          /\ current_system' =
                IF found THEN <<scan_organic(Cur, event)>> ELSE current_system
    /\ UNCHANGED <<systems, next_route_system, next_route_star_class, remaining_jumps>>

Next ==
    \/ \E journal \in SeqsUpTo(BootLines, MaxBoot), status \in StatusFiles,
          nav \in NavRouteFiles : Bootstrap(journal, status, nav)
    \/ \E event \in ArrivalEvents, status \in StatusFiles, nav \in NavRouteFiles :
          Arrival(event, status, nav)
    \/ \E event \in ScanEvents : Scan(event)
    \/ \E event \in SignalEvents : Signals(event)
    \/ \E event \in ScanCompleteEvents : ScanComplete(event)
    \/ \E event \in OrganicEvents : ScanOrganic(event)

Spec == Init /\ [][Next]_vars

\* ------------------------------------------------------------------
\* Lines the handlers cannot apply.
\* ------------------------------------------------------------------

\* What json.loads makes of a value: "invalid" (it raises
\* JSONDecodeError), "array" or "string" (a value without .get), or
\* "object" (a dict; every event record above is one).
JsonKind(value) == Get(value, "json", "object")

\* Lines of the journal that are not records of a known event: text that
\* is not JSON, a JSON array, an event no branch names, and a signal
\* record whose Signals list holds a string instead of an object.
BadLines ==
    { [json |-> "invalid"],
      [json |-> "array"],
      [event |-> "Music"],
      [event |-> "FSSBodySignals", BodyName |-> "Sol A",
       Signals |-> <<[json |-> "string"]>>] }

\* handle_event raises for the decoded line: event.get on a value that is
\* no dict, or sig.get on a Signals entry that is no dict once the signal
\* branch counts the entries (app.py returns before without a current
\* system).
HandlerRaises(line) ==
    \/ JsonKind(line) # "object"
    \/ /\ Get(line, "event", None) \in {"FSSBodySignals", "SAASignalsFound"}
       /\ variant = "app" => HasCurrent
       /\ \E i \in 1..Len(Get(line, "Signals", <<>>)) :
             JsonKind(line.Signals[i]) # "object"

\* One pass of the tail loop over such a line. app.py wraps json.loads
\* and handle_event in a bare except and goes on; EDExplorer.py catches
\* JSONDecodeError around json.loads only, so an exception of
\* handle_event leaves main. None of the lines reaches a write of the
\* ledger.
BadLine(line) ==
    /\ pc = "watch"
    /\ lines < MaxLines
    /\ lines' = lines + 1
    /\ last' = line
    /\ repeated' = (line = last)
    /\ refreshed' = FALSE
    /\ pc' = IF /\ variant = "legacy"
                /\ JsonKind(line) # "invalid"
                /\ HandlerRaises(line)
             THEN "crashed" ELSE "watch"
    /\ UNCHANGED <<variant, ledger, cache, rendered, system_signals,
                   journal_file, reader>>

\* Records of a known event that lack the body name.
NamelessScans ==
    { [event |-> "Scan", ScanType |-> "Detailed",
       PlanetClass |-> "Rocky body", TerraformState |-> "",
       DistanceFromArrivalLS |-> 20, Landable |-> TRUE] }

NamelessSignals ==
    { [event |-> "FSSBodySignals",
       Signals |-> << [Type |-> "$SAA_SignalType_Biological;", Count |-> 2] >>] }

NextTail ==
    \/ Next
    \/ \E line \in BadLines : BadLine(line)
    \/ \E event \in NamelessScans : Scan(event)
    \/ \E event \in NamelessSignals : Signals(event)

SpecTail == Init /\ [][NextTail]_vars

\* ------------------------------------------------------------------
\* Arrivals along a plotted route.
\* ------------------------------------------------------------------
RouteSystems ==
    << [StarSystem |-> "Sol", StarClass |-> "G", SystemAddress |-> 1],
       [StarSystem |-> "Alpha Centauri", StarClass |-> "K", SystemAddress |-> 2],
       [StarSystem |-> "Barnard's Star", StarClass |-> "M", SystemAddress |-> 3],
       [StarSystem |-> "Wolf 359", StarClass |-> "M", SystemAddress |-> 4],
       [StarSystem |-> "Sirius", StarClass |-> "A", SystemAddress |-> 5] >>

\* FSDJump and Location for the first, the middle and the last system of
\* the route.
RouteArrivals ==
    { [event |-> e, StarSystem |-> RouteSystems[i].StarSystem,
       StarClass |-> RouteSystems[i].StarClass,
       SystemAddress |-> RouteSystems[i].SystemAddress] :
         e \in {"FSDJump", "Location"}, i \in {1, 3, 5} }

\* Status.json: missing, unreadable, without Destination, with the last or
\* the second system as destination.
RouteStatusFiles ==
    { [exists |-> FALSE, ok |-> FALSE, data |-> <<>>],
      [exists |-> TRUE, ok |-> FALSE, data |-> <<>>],
      [exists |-> TRUE, ok |-> TRUE, data |-> [Flags |-> 0]],
      [exists |-> TRUE, ok |-> TRUE, data |-> [Destination |-> [System |-> 5]]],
      [exists |-> TRUE, ok |-> TRUE, data |-> [Destination |-> [System |-> 2]]] }

\* NavRoute.json: missing, unreadable, the route over all five systems,
\* the route over the first two.
RouteNavFiles ==
    { [exists |-> FALSE, ok |-> FALSE, data |-> <<>>],
      [exists |-> TRUE, ok |-> FALSE, data |-> <<>>],
      [exists |-> TRUE, ok |-> TRUE, data |-> [Route |-> RouteSystems]],
      [exists |-> TRUE, ok |-> TRUE, data |-> [Route |-> SubSeq(RouteSystems, 1, 2)]] }

NextRoute ==
    \/ \E journal \in SeqsUpTo(BootLines, MaxBoot), status \in RouteStatusFiles,
          nav \in RouteNavFiles : Bootstrap(journal, status, nav)
    \/ \E event \in RouteArrivals, status \in RouteStatusFiles,
          nav \in RouteNavFiles : Arrival(event, status, nav)

SpecRoute == Init /\ [][NextRoute]_vars

\* ------------------------------------------------------------------
\* The cache of valuable systems (EDExplorer.py).
\* ------------------------------------------------------------------
\* Scans of bodies of small value: 500, 1000 and 670 credits.
CacheScanEvents ==
    { [event |-> "Scan", ScanType |-> "Detailed", BodyName |-> n,
       PlanetClass |-> "Icy body", TerraformState |-> "",
       DistanceFromArrivalLS |-> 2000, Landable |-> TRUE] : n \in BodyNames }
    \cup
    { [event |-> "Scan", ScanType |-> "Detailed", BodyName |-> "Sol A",
       PlanetClass |-> "Class III gas giant", TerraformState |-> "",
       DistanceFromArrivalLS |-> 700, Landable |-> FALSE],
      [event |-> "Scan", ScanType |-> "Detailed", BodyName |-> "Sol B",
       PlanetClass |-> "Water giant", TerraformState |-> "",
       DistanceFromArrivalLS |-> 1200, Landable |-> FALSE] }

TargetEvents ==
    { [event |-> "FSDTarget", Name |-> "Alpha Centauri", StarClass |-> "K",
       SystemAddress |-> 2] }

\* The cache file an earlier session left: Sol with one mapped icy body.
EarlierSession ==
    store_system(EmptyCache,
        ED_saa_scan_complete(
            ED_add_body(SystemData("Sol", "G", 1),
                        [ED_evaluate_planet(
                            [event |-> "Scan", ScanType |-> "Detailed",
                             BodyName |-> "Sol A", PlanetClass |-> "Icy body",
                             TerraformState |-> "", DistanceFromArrivalLS |-> 2000,
                             Landable |-> TRUE])
                         EXCEPT !.scanned_fss = TRUE]),
            [event |-> "SAAScanComplete", BodyName |-> "Sol A"]))

\* ExplorationCache.load: the file is missing or holds the entries of
\* an earlier session.
CacheFiles == { EmptyCache, EarlierSession }

InitCache ==
    /\ InitLedger
    /\ cache \in CacheFiles
    /\ rendered = <<>>
    /\ journal_file = NoJournal
    /\ reader = NoReader

\* FSDTarget: EDExplorer.py stores the current system when DSS was used
\* in it and falls through every other branch; app.py has no branch for
\* the event.
FSDTarget(event) ==
    /\ LineRead(event, FALSE)
    /\ cache' = IF variant = "legacy" /\ Cur.dss_used
                THEN store_system(cache, Cur) ELSE cache
    /\ UNCHANGED <<ledger, system_signals>>

NextCache ==
    \/ \E journal \in SeqsUpTo(BootLines, MaxBoot), status \in StatusFiles,
          nav \in NavRouteFiles : Bootstrap(journal, status, nav)
    \/ \E event \in ArrivalEvents, status \in StatusFiles, nav \in NavRouteFiles :
          Arrival(event, status, nav)
    \/ \E event \in CacheScanEvents : Scan(event)
    \/ \E event \in ScanCompleteEvents : ScanComplete(event)
    \/ \E event \in TargetEvents : FSDTarget(event)

SpecCache == InitCache /\ [][NextCache]_vars

\* ------------------------------------------------------------------
\* The tail task and the render task of app.py.
\* ------------------------------------------------------------------
\* watch_journal is a coroutine of the event loop that also runs the
\* renders.  handle_event is a plain function: between its statements
\* (the time.sleep(1) of FSDJump included) the loop runs nothing else.
\* Here each handler is two steps, with pc "arrived" between new_system
\* and update_route, "merged" between the write of a body and the
\* recomputation of value and total, "marked" between the write of
\* scanned_dss and the recomputation.  rendered is <<>> or the one
\* snapshot the last render read: the current system, the route fields
\* and the pc of the tail task at that moment.
InitRender ==
    /\ InitLedger
    /\ variant = "app"
    /\ cache = EmptyCache
    /\ rendered = <<>>
    /\ journal_file = NoJournal
    /\ reader = NoReader

\* The tail task takes a line and starts the handler.
LineTaken(event, at) ==
    /\ pc = "watch"
    /\ lines < MaxLines
    /\ lines' = lines + 1
    /\ last' = event
    /\ repeated' = (event = last)
    /\ pc' = at
    /\ UNCHANGED <<variant, refreshed, cache, rendered, system_signals,
                   journal_file, reader>>

\* The handler returns and the loop is back at readline.
HandlerDone(at) ==
    /\ pc = at
    /\ pc' = "watch"
    /\ refreshed' = TRUE
    /\ UNCHANGED <<variant, last, repeated, lines, cache, rendered, system_signals,
                   journal_file, reader>>

BeginArrival(event) ==
    /\ LineTaken(event, "arrived")
    /\ LET r == new_system(current_system, systems,
                           Get(event, "StarSystem", "Unbekannt"),
                           Get(event, "StarClass", None),
                           Get(event, "SystemAddress", NoAddress))
       IN /\ current_system' = r.current_system
          /\ systems' = r.systems
    /\ UNCHANGED <<next_route_system, next_route_star_class, remaining_jumps>>

EndArrival(status, nav) ==
    /\ HandlerDone("arrived")
    /\ SetRoute(update_route(RouteFields, Cur.system_address, status, nav))
    /\ UNCHANGED <<current_system, systems>>

\* add_body up to the write of the body: the merged payload replaces the
\* body, or the valued payload is appended.
BeginScan(event) ==
    /\ Get(event, "ScanType", "") \in {"Detailed", "AutoScan", "Basic", "NavBeaconDetail"}
    /\ LineTaken(event, "merged")
    /\ current_system' =
          IF ~HasCurrent THEN current_system
          ELSE LET body_data == [evaluate_planet(event) EXCEPT !.scanned_fss = TRUE]
                   i == FindBody(Cur.bodies, body_data.name)
               IN IF i > 0
                  THEN <<[Cur EXCEPT !.bodies[i] = MergeBody(@, body_data)]>>
                  ELSE <<[Cur EXCEPT !.bodies = Append(@, WithValue(body_data))]>>
    /\ UNCHANGED <<systems, next_route_system, next_route_star_class, remaining_jumps>>

\* add_body from there: the value of the body, then the total.
EndScan ==
    /\ HandlerDone("merged")
    /\ current_system' =
          IF ~HasCurrent THEN current_system
          ELSE LET i == FindBody(Cur.bodies, Get(last, "BodyName", "Unbekannt"))
               IN <<WithTotal([Cur EXCEPT !.bodies[i] = WithValue(@)])>>
    /\ UNCHANGED <<systems, next_route_system, next_route_star_class, remaining_jumps>>

\* SAAScanComplete up to the write of scanned_dss of the first body with
\* the name.
BeginScanComplete(event) ==
    /\ LineTaken(event, "marked")
    /\ current_system' =
          IF ~HasCurrent THEN current_system
          ELSE LET i == FindBody(Cur.bodies, Get(event, "BodyName", None))
               IN IF i > 0
                  THEN <<[Cur EXCEPT !.dss_used = TRUE,
                                     !.bodies[i].scanned_dss = TRUE]>>
                  ELSE <<[Cur EXCEPT !.dss_used = TRUE]>>
    /\ UNCHANGED <<systems, next_route_system, next_route_star_class, remaining_jumps>>

\* SAAScanComplete from there: the value of the body, then the total.
EndScanComplete ==
    /\ HandlerDone("marked")
    /\ current_system' =
          IF ~HasCurrent THEN current_system
          ELSE <<saa_scan_complete(Cur, last)>>
    /\ UNCHANGED <<systems, next_route_system, next_route_star_class, remaining_jumps>>

\* Mutant of Render: the render runs whatever the tail task is doing, as
\* it would with the tail task in a thread of its own.
Render_Preemptive ==
    /\ rendered' = <<[system |-> current_system, route |-> RouteFields, at |-> pc]>>
    /\ rendered' # rendered
    /\ UNCHANGED <<variant, pc, ledger, last, repeated, refreshed, lines, cache,
                   system_signals, journal_file, reader>>

\* A render (SystemHeader.render, the tree widgets) reads the state.  The
\* event loop runs it only while the tail task is suspended: before
\* on_mount and at the await of watch_journal.
Render ==
    /\ pc \in {"boot", "watch"}
    /\ rendered' = <<[system |-> current_system, route |-> RouteFields, at |-> pc]>>
    /\ rendered' # rendered
    /\ UNCHANGED <<variant, pc, ledger, last, repeated, refreshed, lines, cache,
                   system_signals, journal_file, reader>>

\* The Detailed scans of ScanEvents.
RenderScanEvents == { e \in ScanEvents : e.ScanType = "Detailed" }

NextRender ==
    \/ \E journal \in SeqsUpTo(BootLines, MaxBoot), status \in StatusFiles,
          nav \in NavRouteFiles : Bootstrap(journal, status, nav)
    \/ \E event \in ArrivalEvents : BeginArrival(event)
    \/ \E status \in StatusFiles, nav \in NavRouteFiles : EndArrival(status, nav)
    \/ \E event \in RenderScanEvents : BeginScan(event)
    \/ EndScan
    \/ \E event \in ScanCompleteEvents : BeginScanComplete(event)
    \/ EndScanComplete
    \/ Render

SpecRender == InitRender /\ [][NextRender]_vars

\* ------------------------------------------------------------------
\* Scans of stars, clusters and renamed planet classes.
\* ------------------------------------------------------------------
\* A water world and an ammonia world that are not terraformable, a star
\* of a class of the star table, a star of a class the table does not
\* have, and a belt cluster.
ValueScanEvents ==
    { [event |-> "Scan", ScanType |-> "Detailed", BodyName |-> "Sol B",
       PlanetClass |-> c, TerraformState |-> "",
       DistanceFromArrivalLS |-> 900, Landable |-> FALSE] :
         c \in {"Water world", "Ammonia world"} }
    \cup
    { [event |-> "Scan", ScanType |-> "Basic", BodyName |-> "Sol A",
       StarType |-> t, DistanceFromArrivalLS |-> 0] : t \in {"G", "M_RedGiant"} }
    \cup
    { [event |-> "Scan", ScanType |-> "NavBeaconDetail",
       BodyName |-> "Sol A Belt Cluster 1", DistanceFromArrivalLS |-> 30] }

ValueCompleteEvents ==
    { [event |-> "SAAScanComplete", BodyName |-> n] :
         n \in {"Sol A", "Sol B", "Sol A Belt Cluster 1"} }

NextValues ==
    \/ \E journal \in SeqsUpTo(BootLines, MaxBoot), status \in StatusFiles,
          nav \in NavRouteFiles : Bootstrap(journal, status, nav)
    \/ \E event \in ArrivalEvents, status \in StatusFiles, nav \in NavRouteFiles :
          Arrival(event, status, nav)
    \/ \E event \in ValueScanEvents : Scan(event)
    \/ \E event \in ValueCompleteEvents : ScanComplete(event)

SpecValues == Init /\ [][NextValues]_vars

\* ------------------------------------------------------------------
\* Properties
\* ------------------------------------------------------------------
\* The bodies of the current system, none when there is no current system.
Bodies == IF HasCurrent THEN Cur.bodies ELSE <<>>

\* The tail loop applies a line in this step; the line is last'.
Step == lines' = lines + 1

IsScan(event) == event.event = "Scan"
IsSignals(event) == event.event \in {"FSSBodySignals", "SAASignalsFound"}
IsScanComplete(event) == event.event = "SAAScanComplete"

\* The body the event applied last names, as an index (0: not present).
LastBody == FindBody(Bodies, Get(last, "BodyName", None))

SignalCounts(body) ==
    [bio |-> body.bio_signals, geo |-> body.geo_signals,
     human |-> body.human_signals, guardian |-> body.guardian_signals,
     thargoid |-> body.thargoid_signals, other |-> body.other_signals]

EventCounts(event) == CountSignals(Get(event, "Signals", <<>>), ZeroCounts)

\* C1: a signal event for a body already in the current system, whose
\* count for a category is zero or absent, leaves a non-zero count the body
\* had for that category as it was.
C1_ZeroCountKeepsKnownCount ==
    [][(Step /\ IsSignals(last') /\ FindBody(Bodies, last'.BodyName) > 0) =>
          LET i == FindBody(Bodies, last'.BodyName)
              j == FindBody(Bodies', last'.BodyName)
          IN /\ j > 0
             /\ \A k \in DOMAIN ZeroCounts :
                   (EventCounts(last')[k] = 0 /\ SignalCounts(Bodies[i])[k] # 0)
                      => SignalCounts(Bodies'[j])[k] = SignalCounts(Bodies[i])[k]]_vars

\* C2: scanned_fss and scanned_dss of a body never go from true to false
\* while the body stays in the current system, whatever event is applied.
C2_ScanFlagsMonotonic ==
    [][\A i \in 1..Len(Bodies) :
          LET j == FindBody(Bodies', Bodies[i].name)
          IN j > 0 =>
                /\ Bodies[i].scanned_fss => Bodies'[j].scanned_fss
                /\ Bodies[i].scanned_dss => Bodies'[j].scanned_dss]_vars

\* A body whose surface scan was completed has just been scanned again.
C2_Witness ==
    /\ last.event = "Scan"
    /\ LastBody > 0
    /\ Bodies[LastBody].scanned_dss
    /\ Bodies[LastBody].scanned_fss

\* C3: the current system never holds two bodies with the same name: a
\* scan or signal event for a present name merges into the entry.
C3_OneBodyPerName ==
    \A i, j \in 1..Len(Bodies) : Bodies[i].name = Bodies[j].name => i = j

\* A scan has merged into a body that signal events had put there, and a
\* signal event has been applied to a body a scan had put there.
C3_Witness ==
    /\ Len(Bodies) = 2
    /\ IsSignals(last)
    /\ LastBody > 0
    /\ Bodies[LastBody].scanned_fss
    /\ \E i \in 1..Len(Bodies) :
          Bodies[i].type # "Unbekannt" /\ Bodies[i].geo_signals > 0

\* C4: the total_value of the current system is the sum of the stored
\* values of its bodies after every event.
C4_TotalIsSumOfValues ==
    HasCurrent => Cur.total_value = calculate_system_value(Cur.bodies)

\* C5: every body of the current system stores the value
\* calculate_body_value gives for its current type and scanned_dss.
C5_ValueIsFresh ==
    \A i \in 1..Len(Bodies) :
       Bodies[i].value = calculate_body_value(Bodies[i].type, Bodies[i].scanned_dss)

\* A surface scan has just been completed on a scanned planet, and its
\* value carries the DSS multiplier.
C5_Witness ==
    /\ last.event = "SAAScanComplete"
    /\ LastBody > 0
    /\ Bodies[LastBody].scanned_dss
    /\ Bodies[LastBody].type = "Rocky body"
    /\ Bodies[LastBody].value = 650000

\* The current system holds the body exactly as the signal event applied
\* last created it, as a placeholder.
FreshPlaceholder ==
    /\ HasCurrent
    /\ IsSignals(last)
    /\ AnyCount(EventCounts(last))
    /\ LastBody > 0
    /\ Bodies[LastBody] =
          WithValue(Placeholder(last.BodyName, EventCounts(last),
                                GenusNames(Get(last, "Genuses", <<>>))))

\* C6 (app.py): when a signal event with a non-zero count has created the
\* body and a scan of the same body follows, there is one body of that
\* name; it has the counts and genus names of the signal event and the
\* type, distance, landable flag and terraform state of the scan.
C6_SignalsThenScan ==
    [][(/\ Step
        /\ IsScan(last')
        /\ variant = "app"
        /\ IsSignals(last)
        /\ last'.BodyName = last.BodyName
        /\ FreshPlaceholder)
       => LET scan == last'
              j == FindBody(Bodies', scan.BodyName)
          IN /\ j > 0
             /\ Cardinality({k \in 1..Len(Bodies') :
                                Bodies'[k].name = scan.BodyName}) = 1
             /\ Len(Bodies') = Len(Bodies)
             /\ SignalCounts(Bodies'[j]) = EventCounts(last)
             /\ Bodies'[j].bio_details = GenusNames(Get(last, "Genuses", <<>>))
             /\ Bodies'[j].type = BodyType(scan)
             /\ Bodies'[j].distance = Get(scan, "DistanceFromArrivalLS", 0)
             /\ Bodies'[j].landable = Get(scan, "Landable", FALSE)
             /\ Bodies'[j].terraform_state = Get(scan, "TerraformState", "")
             /\ Bodies'[j].scanned_fss]_vars

\* Scenario C: the rocky body scanned after its two biological signals and
\* its genus were reported.
C6_Witness ==
    /\ variant = "app"
    /\ last.event = "Scan"
    /\ Len(Bodies) = 1
    /\ Bodies[1].name = last.BodyName
    /\ Bodies[1].bio_signals = 2
    /\ Bodies[1].bio_details = <<"Bacterium">>
    /\ Bodies[1].type = "Rocky body"
    /\ Bodies[1].distance = 20

\* C7: a signal event with bio = n > 0 leaves the body with bio_signals = n
\* (also when the body already had n: the count is not doubled), and a
\* scan of the body that follows the signal event leaves it at n (the scan
\* does not put it back to 0); hence signals, scan, same signals ends with n.
C7_SignalsScanSignals ==
    [][/\ (Step /\ IsSignals(last') /\ HasCurrent /\ EventCounts(last').bio > 0)
          => LET j == FindBody(Bodies', last'.BodyName)
             IN j > 0 /\ Bodies'[j].bio_signals = EventCounts(last').bio
       /\ (/\ Step
           /\ IsScan(last')
           /\ IsSignals(last)
           /\ last'.BodyName = last.BodyName
           /\ HasCurrent
           /\ EventCounts(last).bio > 0)
          => LET j == FindBody(Bodies', last'.BodyName)
             IN j > 0 /\ Bodies'[j].bio_signals = EventCounts(last).bio]_vars

\* The third event of the sequence has been applied: the signal event came
\* again for a body that was scanned after it had biological signals.
C7_Witness ==
    /\ lines >= 3
    /\ IsSignals(last)
    /\ EventCounts(last).bio = 2
    /\ LastBody > 0
    /\ Bodies[LastBody].scanned_fss
    /\ Bodies[LastBody].bio_signals = 2

\* C8: a scan payload applied a second time in a row changes nothing in
\* the ledger: bodies, their values and merged fields, and the system
\* total are those left by the first application.
C8_ScanIdempotent ==
    [][(Step /\ IsScan(last') /\ last' = last) => UNCHANGED ledger]_vars

\* The same scan payload came twice in a row for a body that already had
\* signals, genus names, a completed surface scan or an organic scan.
C8_Witness ==
    /\ repeated
    /\ last.event = "Scan"
    /\ LastBody > 0
    /\ \/ Bodies[LastBody].scanned_dss
       \/ Bodies[LastBody].scanned_genomes # {}
       \/ Bodies[LastBody].bio_details # <<>>
       \/ Bodies[LastBody].geo_signals > 0

\* C9: after an arrival and the scan of an "Earthlike body", the body's
\* value is 1,200,000 and so is the system total.
C9_EarthlikeScenario ==
    (/\ last.event = "Scan"
     /\ Get(last, "PlanetClass", "") = "Earthlike body"
     /\ Len(Bodies) = 1
     /\ ~Bodies[1].scanned_dss)
    => /\ Bodies[1].value = 1200000
       /\ Cur.total_value = 1200000

\* C10: a surface-scan completion for a scanned body that is neither a star
\* nor an asteroid cluster sets scanned_dss, makes the value 5 times what
\* it was (1,200,000 to 6,000,000 for an earthlike body) and raises the
\* system total by the difference.
C10_SurfaceScanTimesFive ==
    [][LET i == FindBody(Bodies, last'.BodyName)
       IN (/\ Step
           /\ IsScanComplete(last')
           /\ i > 0
           /\ Bodies[i].scanned_fss
           /\ ~Bodies[i].scanned_dss
           /\ ~Contains(Bodies[i].type, "Star Class")
           /\ ~Contains(Bodies[i].type, "Asteroid Cluster"))
          => LET j == FindBody(Bodies', last'.BodyName)
             IN /\ j > 0
                /\ Bodies'[j].scanned_dss
                /\ Bodies'[j].value = 5 * Bodies[i].value
                /\ Cur'.total_value - Cur.total_value
                      = Bodies'[j].value - Bodies[i].value
                /\ Bodies[i].type = "Earthlike World"
                      => Bodies[i].value = 1200000 /\ Bodies'[j].value = 6000000]_vars

IsArrival(event) == event.event \in {"FSDJump", "Location"}
IsScanOrganic(event) == event.event = "ScanOrganic"

\* C11: SAAScanComplete sets dss_used of the current system whether or
\* not a body with the name exists; when no body has the name, the bodies
\* and every value of the current system stay as they were.
C11_ScanCompleteMarksSystem ==
    [][(Step /\ IsScanComplete(last') /\ HasCurrent) =>
          /\ Cur'.dss_used
          /\ FindBody(Bodies, last'.BodyName) = 0 =>
                /\ Bodies' = Bodies
                /\ current_system' = <<[Cur EXCEPT !.dss_used = TRUE]>>]_vars

\* A surface scan was completed for a body the populated current system
\* does not hold.
C11_Witness ==
    /\ IsScanComplete(last)
    /\ HasCurrent
    /\ Len(Bodies) > 0
    /\ LastBody = 0
    /\ Cur.dss_used

\* C12: no archived system has zero bodies; an Arrival applied while the
\* current system is empty archives nothing.
C12_NoEmptyArchivedSystem ==
    [][/\ \A i \in 1..Len(systems') : Len(systems'[i].bodies) > 0
       /\ (Step /\ IsArrival(last') /\ Bodies = <<>>) => systems' = systems]_vars

\* The same Arrival was applied twice in a row after a populated system
\* had been left.
C12_Witness ==
    /\ variant = "app"
    /\ IsArrival(last)
    /\ repeated
    /\ Len(systems) = 1
    /\ Bodies = <<>>

\* C13: applying the same Arrival a second time in a row changes neither
\* the archived systems nor the current system.
C13_ArrivalIdempotent ==
    [][(Step /\ IsArrival(last') /\ last' = last) =>
          UNCHANGED <<current_system, systems>>]_vars

\* The Arrival that archived a populated system has been applied again.
C13_Witness ==
    /\ IsArrival(last)
    /\ repeated
    /\ systems # <<>>
    /\ Cur.name = last.StarSystem

\* C14: Scan, FSSBodySignals, SAASignalsFound, SAAScanComplete and
\* ScanOrganic leave the archived systems as they were.
C14_BodyEventsKeepArchive ==
    [][(Step /\ ~IsArrival(last')) => systems' = systems]_vars

\* A body of the current system was scanned while an archived system
\* holds a body of the same name.
C14_Witness ==
    /\ IsScan(last)
    /\ systems # <<>>
    /\ FindBody(systems[1].bodies, last.BodyName) > 0
    /\ LastBody > 0

\* C15: after an Arrival the current system is fresh: it has the name,
\* star class and address of the event, no bodies, total value 0 and
\* dss_used false.
C15_ArrivalInstallsFreshSystem ==
    [][(Step /\ IsArrival(last')) =>
          current_system' = <<SystemData(Get(last', "StarSystem", "Unbekannt"),
                                         Get(last', "StarClass", None),
                                         Get(last', "SystemAddress", NoAddress))>>]_vars

\* The current system and the archived systems the arrival handler of the
\* running program yields for the event in the present state.
ArrivalLedger(event) ==
    IF variant = "app"
    THEN new_system(current_system, systems,
                    Get(event, "StarSystem", "Unbekannt"),
                    Get(event, "StarClass", None),
                    Get(event, "SystemAddress", NoAddress))
    ELSE [systems |-> systems, current_system |-> <<ED_arrival(Cur, event)>>]

\* The same arrival reported by the other kind of event.
OtherArrival(event) ==
    [event EXCEPT !.event = IF @ = "FSDJump" THEN "Location" ELSE "FSDJump"]

\* C16: a Location applied to a state leaves the current system and the
\* archived systems exactly as an FSDJump with the same fields applied to
\* that state would, and the other way round.
C16_LocationSameAsFSDJump ==
    [][(Step /\ IsArrival(last')) =>
          /\ current_system' = ArrivalLedger(OtherArrival(last')).current_system
          /\ systems' = ArrivalLedger(OtherArrival(last')).systems]_vars

\* C17: a signal event for a body name the current system does not hold
\* appends a placeholder (type unknown, scan flags unset, the counts of
\* the event) if and only if one of the six counts is not zero; with all
\* counts zero the ledger stays as it was.
C17_PlaceholderIffSomeCount ==
    [][(Step /\ IsSignals(last') /\ HasCurrent
             /\ FindBody(Bodies, last'.BodyName) = 0) =>
          IF \E k \in DOMAIN ZeroCounts : EventCounts(last')[k] # 0
          THEN /\ Len(Bodies') = Len(Bodies) + 1
               /\ SubSeq(Bodies', 1, Len(Bodies)) = Bodies
               /\ LET b == Bodies'[Len(Bodies')]
                  IN /\ b.name = last'.BodyName
                     /\ b.type = "Unbekannt"
                     /\ ~b.scanned_fss
                     /\ ~b.scanned_dss
                     /\ SignalCounts(b) = EventCounts(last')
               /\ systems' = systems
          ELSE UNCHANGED ledger]_vars

\* A signal event without any count was applied for a body the current
\* system does not hold, while the system holds a placeholder an earlier
\* signal event created.
C17_Witness ==
    /\ IsSignals(last)
    /\ HasCurrent
    /\ EventCounts(last) = ZeroCounts
    /\ LastBody = 0
    /\ \E i \in 1..Len(Bodies) :
          /\ Bodies[i].type = "Unbekannt"
          /\ ~Bodies[i].scanned_fss
          /\ SignalCounts(Bodies[i]) # ZeroCounts

\* C18: in app.py a ScanOrganic for a body of the current system adds the
\* genus to the scanned_genomes of that body and changes nothing else; a
\* ScanOrganic for a body the current system does not hold changes no
\* field of the ledger.
C18_OrganicScanAddsGenus ==
    [][(Step /\ IsScanOrganic(last') /\ variant = "app") =>
          LET i == FindBody(Bodies, last'.Body)
          IN IF i > 0
             THEN /\ current_system' =
                        <<[Cur EXCEPT !.bodies[i].scanned_genomes =
                                          @ \cup {last'.Genus_Localised}]>>
                  /\ UNCHANGED <<systems, next_route_system,
                                 next_route_star_class, remaining_jumps>>
             ELSE UNCHANGED ledger]_vars

\* An organic scan was applied for one of two bodies of the current
\* system; the other body has no scanned genus.
C18_Witness ==
    /\ variant = "app"
    /\ IsScanOrganic(last)
    /\ Len(Bodies) = 2
    /\ FindBody(Bodies, last.Body) > 0
    /\ Bodies[FindBody(Bodies, last.Body)].scanned_genomes = {last.Genus_Localised}
    /\ \E i \in 1..Len(Bodies) : Bodies[i].scanned_genomes = {}

\* C19: a genus name in the bio_details or the scanned_genomes of a body
\* stays there as long as the body is in the current system, whatever
\* event is applied.
C19_GenusNeverRemoved ==
    [][\A i \in 1..Len(Bodies) :
          LET j == FindBody(Bodies', Bodies[i].name)
          IN j > 0 =>
                /\ \A d \in 1..Len(Bodies[i].bio_details) :
                      \E e \in 1..Len(Bodies'[j].bio_details) :
                         Bodies'[j].bio_details[e] = Bodies[i].bio_details[d]
                /\ Bodies[i].scanned_genomes \subseteq Bodies'[j].scanned_genomes]_vars

\* A body with a discovered genus and a scanned genus has just been
\* scanned again.
C19_Witness ==
    /\ IsScan(last)
    /\ LastBody > 0
    /\ Bodies[LastBody].bio_details # <<>>
    /\ Bodies[LastBody].scanned_genomes # {}
    /\ Bodies[LastBody].type # "Unbekannt"

\* C20: no line ends the tail loop: after a line that is not JSON, a
\* JSON value that is not an object, an unknown event or a record whose
\* handling raises, the loop is still reading lines.
C20_TailLoopNeverAborts == pc # "crashed"

\* C21: a Scan or signal record without a body name is ignored: the
\* loop goes on and the ledger stays as it was.
C21_NamelessRecordIgnored ==
    [][(Step /\ Get(last', "event", None) \in {"Scan", "FSSBodySignals", "SAASignalsFound"}
             /\ "BodyName" \notin DOMAIN last') =>
          /\ pc' = "watch"
          /\ UNCHANGED ledger]_vars

\* Both snapshots were read and Status.json names a destination.
RouteReadable(status, nav) ==
    /\ status.exists /\ status.ok
    /\ nav.exists /\ nav.ok
    /\ "Destination" \in DOMAIN status.data
    /\ "System" \in DOMAIN status.data.Destination

\* The positions (from 0) of the route entries with the address.
Positions(route, address) ==
    { i \in 0..(Len(route) - 1) : route[i + 1].SystemAddress = address }

Least(S) == CHOOSE x \in S : \A y \in S : x <= y

\* C22: with both snapshots readable and a destination present,
\* remaining_jumps is the route length minus (position of the current
\* address + 1) when the address is on the route and the route length
\* otherwise; it lies between 0 and the route length.
C22_RemainingJumps ==
    [][(Step /\ IsArrival(last')) =>
          \A status \in RouteStatusFiles, nav \in RouteNavFiles :
             (Arrival(last', status, nav) /\ RouteReadable(status, nav)) =>
                LET route == nav.data.Route
                    at == Positions(route, Cur'.system_address)
                IN /\ remaining_jumps' =
                         IF at # {} THEN Len(route) - (Least(at) + 1)
                         ELSE Len(route)
                   /\ remaining_jumps' >= 0
                   /\ remaining_jumps' <= Len(route)]_vars

\* The ledger arrived at the middle of the route of five with the last
\* system as destination.
C22_Witness ==
    /\ IsArrival(last)
    /\ Cur.system_address = 3
    /\ remaining_jumps = 2
    /\ next_route_system = "Sirius"

\* C23: after an Arrival the next system and its star class are those of
\* the first route entry whose address is the destination and not the
\* current address; without such an entry both are None, whatever they
\* were before.
C23_NextSystem ==
    [][(Step /\ IsArrival(last')) =>
          \A status \in RouteStatusFiles, nav \in RouteNavFiles :
             Arrival(last', status, nav) =>
                LET route == IF RouteReadable(status, nav) THEN nav.data.Route ELSE <<>>
                    dest == IF RouteReadable(status, nav)
                            THEN status.data.Destination.System ELSE NoAddress
                    at == IF dest # Cur'.system_address
                          THEN Positions(route, dest) ELSE {}
                IN IF at # {}
                   THEN /\ next_route_system' = route[Least(at) + 1].StarSystem
                        /\ next_route_star_class' = route[Least(at) + 1].StarClass
                   ELSE /\ next_route_system' = None
                        /\ next_route_star_class' = None]_vars

\* After an earlier arrival the ledger arrived at a system that is the
\* destination, with a route that does not hold it.
C23_Witness ==
    /\ IsArrival(last)
    /\ lines >= 2
    /\ Cur.system_address = 5
    /\ remaining_jumps = 2
    /\ next_route_system = None
    /\ next_route_star_class = None

\* C24: when Status.json or NavRoute.json is missing or unreadable or
\* names no destination, an Arrival leaves the next system and its class
\* None and remaining_jumps 0, whatever they were before.
C24_RouteFailSoft ==
    [][(Step /\ IsArrival(last')) =>
          \A status \in RouteStatusFiles, nav \in RouteNavFiles :
             (Arrival(last', status, nav) /\ ~RouteReadable(status, nav)) =>
                /\ next_route_system' = None
                /\ next_route_star_class' = None
                /\ remaining_jumps' = 0]_vars

\* After an earlier arrival the ledger arrived at the first system of
\* both routes and has no route.
C24_Witness ==
    /\ IsArrival(last)
    /\ lines >= 2
    /\ Cur.system_address = 1
    /\ remaining_jumps = 0
    /\ next_route_system = None

IsTarget(event) == event.event = "FSDTarget"

\* C25: store_system writes the summary of the system under its address
\* if and only if the sum of the values of its bodies is at least 1000;
\* below 1000 the cache stays as it was, an earlier entry for the address
\* included.
C25_StoredIffValuable ==
    [][(Step /\ IsTarget(last') /\ variant = "legacy" /\ Cur.dss_used) =>
          LET key == CacheKey(Cur.system_address)
              total == calculate_system_value(Bodies)
          IN IF total >= 1000
             THEN /\ key \in DOMAIN cache'
                  /\ cache'[key].name = Cur.name
                  /\ cache'[key].total_value = total
                  /\ DOMAIN cache' = DOMAIN cache \cup {key}
                  /\ \A k \in DOMAIN cache : k # key => cache'[k] = cache[k]
             ELSE cache' = cache]_vars

\* A system worth exactly 1000 has just been stored.
C25_Witness ==
    /\ IsTarget(last)
    /\ variant = "legacy"
    /\ Cur.dss_used
    /\ calculate_system_value(Bodies) = 1000
    /\ CacheKey(Cur.system_address) \in DOMAIN cache
    /\ cache[CacheKey(Cur.system_address)].total_value = 1000

\* C26: what a render reads is the state between two handlers: the
\* tail task is not inside a handler, every body's value is the value of
\* its type and its scanned_dss, the total is the sum of the values, and
\* the route fields are those computed after the current system was
\* installed.
C26_RenderSeesWholeSteps ==
    rendered # <<>> =>
       /\ rendered[1].at \in {"boot", "watch"}
       /\ rendered[1].system # <<>> =>
             LET sys == rendered[1].system[1]
             IN /\ sys.total_value = calculate_system_value(sys.bodies)
                /\ \A i \in 1..Len(sys.bodies) :
                      sys.bodies[i].value =
                         calculate_body_value(sys.bodies[i].type,
                                              sys.bodies[i].scanned_dss)

\* A render read a system with a mapped body, and the tail task is now
\* between new_system and update_route of the next Arrival.
C26_Witness ==
    /\ rendered # <<>>
    /\ rendered[1].system # <<>>
    /\ \E i \in 1..Len(rendered[1].system[1].bodies) :
          rendered[1].system[1].bodies[i].scanned_dss
    /\ pc = "arrived"
    /\ rendered[1].system # current_system

\* C27: the bootstrap sets the current system from the last arrival
\* line of the journal, be it a Location or an FSDJump.
C27_BootstrapTakesLastArrival ==
    [][(pc = "boot" /\ pc' = "watch") =>
          \A journal \in SeqsUpTo(BootLines, MaxBoot), status \in StatusFiles,
             nav \in NavRouteFiles :
                (Bootstrap(journal, status, nav) /\ journal # <<>>) =>
                   /\ current_system' # <<>>
                   /\ Cur'.name = journal[Len(journal)].StarSystem
                   /\ Cur'.system_address = journal[Len(journal)].SystemAddress]_vars

\* C28: a scanned body of a planet class of the value table that is
\* reported Terraformable is worth 10 times the table value of the class
\* without a surface scan and 50 times with one.
C28_TerraformableTimesTen ==
    [][(Step /\ IsScan(last') /\ current_system' # <<>>
             /\ Get(last', "TerraformState", "") = "Terraformable"
             /\ Get(last', "PlanetClass", "") \in DOMAIN PLANET_BASE_VALUES) =>
          LET b == Bodies'[FindBody(Bodies', last'.BodyName)]
          IN b.value = PLANET_BASE_VALUES[last'.PlanetClass] * 10
                          * (IF b.scanned_dss THEN 5 ELSE 1)]_vars

UpperCase ==
    <<"A", "B", "C", "D", "E", "F", "G", "H", "I", "J", "K", "L", "M",
      "N", "O", "P", "Q", "R", "S", "T", "U", "V", "W", "X", "Y", "Z">>

LowerCase ==
    <<"a", "b", "c", "d", "e", "f", "g", "h", "i", "j", "k", "l", "m",
      "n", "o", "p", "q", "r", "s", "t", "u", "v", "w", "x", "y", "z">>

\* The string in lower case.
RECURSIVE Lower(_)
Lower(s) ==
    IF Len(s) = 0 THEN s
    ELSE LET c == SubSeq(s, 1, 1)
             l == IF \E i \in 1..26 : UpperCase[i] = c
                  THEN LowerCase[CHOOSE i \in 1..26 : UpperCase[i] = c]
                  ELSE c
         IN l \o Lower(SubSeq(s, 2, Len(s)))

IsStarType(type) == Len(type) >= 11 /\ SubSeq(type, 1, 11) = "Star Class "
IsClusterType(type) == type = "Asteroid Cluster"

\* The class code of a star type.
StarCode(type) == SubSeq(type, 12, Len(type))

\* C29: a body whose type differs from a key of the planet table only
\* in letter case, or whose star class differs from a key of the star
\* table only in letter case, has the value of that key (times 5 for a
\* planet with a surface scan), not the default value.
C29_LookupIgnoresCase ==
    \A i \in 1..Len(Bodies) :
       LET b == Bodies[i]
       IN /\ IsStarType(b.type) =>
                \A k \in DOMAIN STAR_BASE_VALUES :
                   Lower(k) = Lower(StarCode(b.type)) => b.value = STAR_BASE_VALUES[k]
          /\ (~IsStarType(b.type) /\ ~IsClusterType(b.type)) =>
                \A k \in DOMAIN PLANET_BASE_VALUES :
                   Lower(k) = Lower(b.type) =>
                      b.value = PLANET_BASE_VALUES[k] * (IF b.scanned_dss THEN 5 ELSE 1)

\* C30: a star is worth the value of its class in the star table, or
\* the default value for a class the table does not have, and an asteroid
\* cluster is worth 0; SAAScanComplete for such a body sets scanned_dss
\* and leaves the value as it was.
C30_StarValueWithoutDss ==
    [][/\ \A i \in 1..Len(Bodies') :
             /\ IsStarType(Bodies'[i].type) =>
                   Bodies'[i].value =
                      IF StarCode(Bodies'[i].type) \in DOMAIN STAR_BASE_VALUES
                      THEN STAR_BASE_VALUES[StarCode(Bodies'[i].type)]
                      ELSE 500
             /\ IsClusterType(Bodies'[i].type) => Bodies'[i].value = 0
       /\ (Step /\ IsScanComplete(last') /\ FindBody(Bodies, last'.BodyName) > 0) =>
             LET i == FindBody(Bodies, last'.BodyName)
             IN (IsStarType(Bodies[i].type) \/ IsClusterType(Bodies[i].type)) =>
                   /\ Bodies'[i].scanned_dss
                   /\ Bodies'[i].type = Bodies[i].type
                   /\ Bodies'[i].value = Bodies[i].value]_vars

\* The surface scan of a star of class G was completed; the system also
\* holds a mapped asteroid cluster.
C30_Witness ==
    /\ IsScanComplete(last)
    /\ LastBody > 0
    /\ Bodies[LastBody].type = "Star Class G"
    /\ Bodies[LastBody].scanned_dss
    /\ Bodies[LastBody].value = 1500
    /\ \E i \in 1..Len(Bodies) :
          /\ IsClusterType(Bodies[i].type)
          /\ Bodies[i].scanned_dss
          /\ Bodies[i].value = 0

\* ------------------------------------------------------------------
\* Signal events with several entries
\* ------------------------------------------------------------------
\* Signal events whose Signals list has several entries: a category named
\* twice, a type string naming two categories, entries of no known
\* category, and the three rarer categories.
MixedSignals ==
    { << [Type |-> "$SAA_SignalType_Biological;", Count |-> 2],
         [Type |-> "$SAA_SignalType_Biological;", Count |-> 3] >>,
      << [Type |-> "Biological Geological", Count |-> 4] >>,
      << [Type |-> "$SAA_SignalType_Other;", Count |-> 1],
         [Type |-> "$SAA_SignalType_Tritium;", Count |-> 2] >>,
      << [Type |-> "$SAA_SignalType_Human;", Count |-> 1],
         [Type |-> "$SAA_SignalType_Guardian;", Count |-> 2],
         [Type |-> "$SAA_SignalType_Thargoid;", Count |-> 3] >>,
      << [Type |-> "Thargoid Guardian", Count |-> 5],
         [Type |-> "$SAA_SignalType_Geological;", Count |-> 1],
         [Type |-> "$SAA_SignalType_Other;", Count |-> 1],
         [Type |-> "$SAA_SignalType_Geological;", Count |-> 2] >> }

MixedSignalEvents ==
    { [event |-> e, BodyName |-> "Sol A", Signals |-> s] :
         e \in {"FSSBodySignals", "SAASignalsFound"}, s \in MixedSignals }

NextSignals ==
    \/ \E journal \in SeqsUpTo(BootLines, MaxBoot), status \in StatusFiles,
          nav \in NavRouteFiles : Bootstrap(journal, status, nav)
    \/ \E event \in ArrivalEvents, status \in StatusFiles, nav \in NavRouteFiles :
          Arrival(event, status, nav)
    \/ \E event \in MixedSignalEvents : Signals(event)

SpecSignals == Init /\ [][NextSignals]_vars

\* The categories in their order of priority, with the key each
\* one is counted under.
CategoryOrder ==
    << <<"Biological", "bio">>, <<"Geological", "geo">>, <<"Human", "human">>,
       <<"Guardian", "guardian">>, <<"Thargoid", "thargoid">> >>

\* The key of the first category of CategoryOrder whose name occurs in
\* the type string st, "other" when none does.
CategoryOf(st) ==
    LET hits == { i \in 1..Len(CategoryOrder) : Contains(st, CategoryOrder[i][1]) }
    IN IF hits = {} THEN "other"
       ELSE CategoryOrder[CHOOSE i \in hits : \A j \in hits : i <= j][2]

RECURSIVE SumCounts(_, _)
SumCounts(signals, S) ==
    IF S = {} THEN 0
    ELSE LET i == CHOOSE i \in S : TRUE
         IN signals[i].Count + SumCounts(signals, S \ {i})

\* The six counts of a list of signal entries: per category the count
\* of its last entry, for other the sum.
ExpectedCounts(signals) ==
    [k \in DOMAIN ZeroCounts |->
        LET of == { i \in 1..Len(signals) : CategoryOf(signals[i].Type) = k }
        IN IF k = "other" THEN SumCounts(signals, of)
           ELSE IF of = {} THEN 0
           ELSE signals[CHOOSE i \in of : \A j \in of : j <= i].Count]

\* C31: after a signal event the body it names holds, for each of
\* biological, geological, human, guardian and thargoid, the count of the
\* last entry whose type string names that category first in this order
\* (0 when there is none), and as other the sum of the counts of the
\* entries that name no category.
C31_CategoryPriority ==
    [][(Step /\ IsSignals(last') /\ HasCurrent) =>
          LET i == FindBody(Bodies', last'.BodyName)
          IN i > 0 => SignalCounts(Bodies'[i]) = ExpectedCounts(last'.Signals)]_vars

\* The event with four entries was applied: the entry naming Thargoid and
\* Guardian counts as guardian, the later geological entry replaces the
\* earlier one, the unmatched entry is counted as other.
C31_Witness ==
    /\ IsSignals(last)
    /\ Len(last.Signals) = 4
    /\ LastBody > 0
    /\ SignalCounts(Bodies[LastBody]) =
          [bio |-> 0, geo |-> 2, human |-> 0, guardian |-> 5, thargoid |-> 0,
           other |-> 1]

\* ------------------------------------------------------------------
\* Records no branch of handle_event applies
\* ------------------------------------------------------------------
\* The ScanType values the Scan branch accepts.
ScanTypes == {"Detailed", "AutoScan", "Basic", "NavBeaconDetail"}

\* The event names handle_event has a branch for, in each program.
BranchEvents ==
    IF variant = "app"
    THEN {"FSDJump", "Location", "Scan", "FSSBodySignals", "SAASignalsFound",
          "SAAScanComplete", "ScanOrganic"}
    ELSE {"FSDTarget", "FSDJump", "Location", "Scan", "FSSSignalDiscovered",
          "FSSBodySignals", "SAASignalsFound", "SAAScanComplete"}

\* A record that passes every branch: handle_event of app.py reaches its
\* last line, return False; handle_event of EDExplorer.py runs off its
\* end and returns None.  A Scan whose ScanType is not accepted is such
\* a record.
Unhandled(event) ==
    /\ \/ Get(event, "event", None) \notin BranchEvents
       \/ /\ Get(event, "event", None) = "Scan"
          /\ Get(event, "ScanType", "") \notin ScanTypes
    /\ Applied(event, FALSE)
    /\ UNCHANGED ledger

\* FSSSignalDiscovered: EDExplorer.py appends the signal to
\* system_signals and returns True; app.py has no branch for the event
\* and returns False.
SignalDiscovered(event) ==
    /\ event.event = "FSSSignalDiscovered"
    /\ LineRead(event, variant = "legacy")
    /\ system_signals' =
          IF variant = "legacy"
          THEN Append(system_signals,
                      [name |-> Get(event, "SignalName", "Unknown"),
                       type |-> Get(event, "SignalType", "Unknown")])
          ELSE system_signals
    /\ UNCHANGED <<ledger, cache>>

\* Journal records of events neither program applies, and scans of a
\* ScanType outside the list (NavBeacon is the type the game writes for a
\* body listed by a nav beacon; the last scan has no ScanType).
UnhandledEvents ==
    { [event |-> "Music", MusicTrack |-> "Exploration"],
      [event |-> "FSSDiscoveryScan", BodyCount |-> 2] }
    \cup
    { [event |-> "Scan", ScanType |-> "NavBeacon", BodyName |-> n,
       PlanetClass |-> "Earthlike body", TerraformState |-> "",
       DistanceFromArrivalLS |-> 500, Landable |-> FALSE] : n \in BodyNames }
    \cup
    { [event |-> "Scan", BodyName |-> "Sol A",
       PlanetClass |-> "Earthlike body", TerraformState |-> "",
       DistanceFromArrivalLS |-> 500, Landable |-> FALSE] }

DiscoveredEvents ==
    { [event |-> "FSSSignalDiscovered", SignalName |-> "Galileo",
       SignalType |-> "StationCoriolis"],
      [event |-> "FSSSignalDiscovered"] }

NextIgnored ==
    \/ \E journal \in SeqsUpTo(BootLines, MaxBoot), status \in StatusFiles,
          nav \in NavRouteFiles : Bootstrap(journal, status, nav)
    \/ \E event \in ArrivalEvents, status \in StatusFiles, nav \in NavRouteFiles :
          Arrival(event, status, nav)
    \/ \E event \in RenderScanEvents : Scan(event)
    \/ \E event \in UnhandledEvents : Unhandled(event)
    \/ \E event \in DiscoveredEvents : SignalDiscovered(event)
    \/ \E event \in TargetEvents : FSDTarget(event)

SpecIgnored == Init /\ [][NextIgnored]_vars

\* The event names the classifier maps to an operation (Arrival,
\* BodyScanned, SignalsDiscovered, SurfaceScanCompleted, OrganicScanned).
RecognizedEvents ==
    {"FSDJump", "Location", "Scan", "FSSBodySignals", "SAASignalsFound",
     "SAAScanComplete", "ScanOrganic"}

\* The record is classified as Ignored.
IsIgnored(event) ==
    \/ event.event \notin RecognizedEvents
    \/ /\ event.event = "Scan"
       /\ Get(event, "ScanType", None) \notin
             {"Detailed", "AutoScan", "Basic", "NavBeaconDetail"}

\* C32: a record of an event name outside the recognized set, or a Scan
\* whose ScanType is not Detailed, AutoScan, Basic or NavBeaconDetail,
\* leaves the ledger unchanged and is not followed by a UI refresh.
C32_IgnoredChangesNothing ==
    [][(Step /\ IsIgnored(last')) => (~refreshed' /\ UNCHANGED ledger)]_vars

\* C33: every step leaves systems as it was or, on an arrival that
\* leaves a current system with bodies, puts that system as it was at
\* the front of systems and keeps the entries behind it, in their order.
C33_ArchiveMostRecentFirst ==
    [][\/ systems' = systems
       \/ /\ Step
          /\ IsArrival(last')
          /\ HasCurrent
          /\ Len(Cur.bodies) > 0
          /\ systems' = <<Cur>> \o systems]_vars

\* Two populated systems were left, Sol and then Alpha Centauri: the later
\* one is first.
C33_Witness ==
    /\ variant = "app"
    /\ IsArrival(last)
    /\ Len(systems) = 2
    /\ systems[1].name = "Alpha Centauri"
    /\ systems[2].name = "Sol"
    /\ Len(systems[1].bodies) > 0
    /\ Len(systems[2].bodies) > 0

\* C34: after an Arrival the current system is the one the record names
\* and the route fields are those of that system: the next system is not
\* the system arrived at; with readable snapshots, remaining_jumps counts
\* from the position of the new address when the route holds it, and a
\* destination that is the system just left, on the route, is the next
\* system.
C34_RouteAfterInstall ==
    [][(Step /\ IsArrival(last')) =>
          /\ Cur'.system_address = last'.SystemAddress
          /\ Cur'.name = last'.StarSystem
          /\ next_route_system' # last'.StarSystem
          /\ \A status \in RouteStatusFiles, nav \in RouteNavFiles :
                (Arrival(last', status, nav) /\ RouteReadable(status, nav)) =>
                   LET route == nav.data.Route
                       new == Positions(route, last'.SystemAddress)
                       old == IF HasCurrent
                              THEN Positions(route, Cur.system_address) ELSE {}
                   IN /\ new # {} =>
                            remaining_jumps' = Len(route) - Least(new) - 1
                      /\ (/\ HasCurrent
                          /\ Cur.system_address # last'.SystemAddress
                          /\ status.data.Destination.System = Cur.system_address
                          /\ old # {}) =>
                            next_route_system' = route[Least(old) + 1].StarSystem]_vars

\* The ledger left the last system of the route for the first one while
\* the last one is still the destination: four jumps remain and the next
\* system is the one just left.
C34_Witness ==
    /\ IsArrival(last)
    /\ lines >= 2
    /\ Cur.system_address = 1
    /\ Cur.name = "Sol"
    /\ remaining_jumps = 4
    /\ next_route_system = "Sirius"

\* C35: when FSDTarget and then FSDJump have been applied in a system in
\* which DSS was used and whose bodies are worth at least 1000 together,
\* the cache holds, under the address of that system, its name, the sum
\* of its body values and the entries of its bodies as they were before
\* the jump.
C35_StoredBeforeDeparture ==
    [][(/\ Step
        /\ last'.event = "FSDJump"
        /\ IsTarget(last)
        /\ HasCurrent
        /\ Cur.dss_used
        /\ calculate_system_value(Bodies) >= 1000)
       => LET key == CacheKey(Cur.system_address)
          IN /\ key \in DOMAIN cache'
             /\ cache'[key].name = Cur.name
             /\ cache'[key].total_value = calculate_system_value(Bodies)
             /\ cache'[key].bodies = ImportantBodies(Bodies)]_vars

\* ------------------------------------------------------------------
\* Systems with bodies of the flagged classes
\* ------------------------------------------------------------------
\* Scans of an earthlike world, a terraformable rocky body, a water
\* world and an ammonia world.
FlagScanEvents ==
    { [event |-> "Scan", ScanType |-> "Detailed", BodyName |-> "Sol A",
       PlanetClass |-> "Earthlike body", TerraformState |-> "",
       DistanceFromArrivalLS |-> 500, Landable |-> FALSE],
      [event |-> "Scan", ScanType |-> "Detailed", BodyName |-> "Sol A",
       PlanetClass |-> "Rocky body", TerraformState |-> "Terraformable",
       DistanceFromArrivalLS |-> 20, Landable |-> TRUE],
      [event |-> "Scan", ScanType |-> "Detailed", BodyName |-> "Sol B",
       PlanetClass |-> "Water world", TerraformState |-> "",
       DistanceFromArrivalLS |-> 900, Landable |-> FALSE],
      [event |-> "Scan", ScanType |-> "Detailed", BodyName |-> "Sol B",
       PlanetClass |-> "Ammonia world", TerraformState |-> "",
       DistanceFromArrivalLS |-> 900, Landable |-> FALSE] }

\* Biological signals on a body; the organic scans are those of
\* OrganicEvents.
FlagSignalEvents ==
    { e \in SignalEvents : e.event = "FSSBodySignals" /\ e.BodyName = "Sol A"
                           /\ e.Signals[1].Count = 2 }

FlagCompleteEvents == { e \in ScanCompleteEvents : e.BodyName \in BodyNames }

NextFlags ==
    \/ \E journal \in SeqsUpTo(BootLines, MaxBoot), status \in StatusFiles,
          nav \in NavRouteFiles : Bootstrap(journal, status, nav)
    \/ \E event \in ArrivalEvents, status \in StatusFiles, nav \in NavRouteFiles :
          Arrival(event, status, nav)
    \/ \E event \in FlagScanEvents : Scan(event)
    \/ \E event \in FlagSignalEvents : Signals(event)
    \/ \E event \in FlagCompleteEvents : ScanComplete(event)
    \/ \E event \in OrganicEvents : ScanOrganic(event)
    \/ \E event \in TargetEvents : FSDTarget(event)

SpecFlags == Init /\ [][NextFlags]_vars

\* The summary carries the flag.
HasFlag(entry, f) == \E i \in 1..Len(entry.flags) : entry.flags[i] = f

\* Some body has a type, as evaluate_planet wrote it, that starts with
\* the given words.
SomeBodyOfClass(words) ==
    \E i \in 1..Len(Bodies) :
       /\ Len(Bodies[i].type) >= Len(words)
       /\ SubSeq(Bodies[i].type, 1, Len(words)) = words

\* C36: the summary store_system writes has the flag ELW if and only if a
\* body is an earthlike world, TERRAFORMABLE iff a body is terraformable,
\* WW iff a body is a water world, AW iff a body is an ammonia world and
\* BIO iff a body has bio_signals > 0.
C36_FlagPerClass ==
    [][(/\ Step
        /\ IsTarget(last')
        /\ variant = "legacy"
        /\ Cur.dss_used
        /\ calculate_system_value(Bodies) >= 1000
        /\ CacheKey(Cur.system_address) \in DOMAIN cache')
       => LET entry == cache'[CacheKey(Cur.system_address)]
          IN /\ HasFlag(entry, "ELW") <=> SomeBodyOfClass("Earthlike World")
             /\ HasFlag(entry, "TERRAFORMABLE") <=>
                   \E i \in 1..Len(Bodies) : Contains(Bodies[i].type, "(Terraformable)")
             /\ HasFlag(entry, "WW") <=> SomeBodyOfClass("Water World")
             /\ HasFlag(entry, "AW") <=> SomeBodyOfClass("Ammonia World")
             /\ HasFlag(entry, "BIO") <=>
                   \E i \in 1..Len(Bodies) : Bodies[i].bio_signals > 0]_vars

\* C37: a line that changes the ledger is followed by a UI refresh:
\* handle_event returns a false value only when it left the ledger as it
\* was.
C37_ChangeRequestsRefresh ==
    [][(Step /\ ledger' # ledger) => refreshed']_vars

\* ------------------------------------------------------------------
\* The journal file, written by the game while the program reads it
\* ------------------------------------------------------------------
\* The lines the game writes here: jumps between the two systems.
JournalEvents == { e \in ArrivalEvents : e.event = "FSDJump" }

\* The program starts on a journal of up to MaxBoot lines.
InitJournal ==
    /\ InitLedger
    /\ cache = EmptyCache
    /\ rendered = <<>>
    /\ \E journal \in SeqsUpTo(BootLines, MaxBoot) :
          journal_file = [tailed |-> TRUE, boot |-> Len(journal),
                          lines |-> journal, part |-> <<>>]
    /\ reader = NoReader

\* What the game does to the file leaves the program as it is.
GameOnly ==
    UNCHANGED <<variant, pc, ledger, last, repeated, refreshed, lines, cache,
                rendered, system_signals, reader>>

\* The game appends a line in one write.  (A line written before the
\* bootstrap scan is a line of the file the program starts on.)
GameWrites(event) ==
    /\ pc # "boot"
    /\ journal_file.part = <<>>
    /\ Len(journal_file.lines) - journal_file.boot < MaxLines
    /\ journal_file' = [journal_file EXCEPT !.lines = Append(@, event)]
    /\ GameOnly

\* The game writes the beginning of a line; the file ends without a
\* newline.
GameStarts(event) ==
    /\ pc # "boot"
    /\ journal_file.part = <<>>
    /\ Len(journal_file.lines) - journal_file.boot < MaxLines
    /\ journal_file' = [journal_file EXCEPT !.part = <<event>>]
    /\ GameOnly

\* The game writes the rest of that line and its newline.
GameEnds ==
    /\ journal_file.part # <<>>
    /\ journal_file' = [journal_file EXCEPT !.lines = Append(@, journal_file.part[1]),
                                            !.part = <<>>]
    /\ GameOnly

\* watch_journal of app.py, follow of EDExplorer.py: after the bootstrap
\* scan has closed the file, the tail loop opens it again and seeks to
\* its end, which is inside a line when the file ends without a newline.
OpenTail ==
    /\ pc = "watch"
    /\ journal_file.tailed
    /\ ~reader.open
    /\ reader' = [open |-> TRUE, pos |-> Len(journal_file.lines),
                  mid |-> journal_file.part # <<>>, applied |-> <<>>]
    /\ UNCHANGED <<variant, pc, ledger, last, repeated, refreshed, lines, cache,
                   rendered, system_signals, journal_file>>

\* f.readline() returns a piece of a line: at the end of a file without
\* a final newline it returns the beginning of the line, and from inside
\* a line that has been completed it returns the rest.  json.loads raises
\* on either piece and the loop goes on to the next readline.
FragmentRead ==
    /\ pc = "watch"
    /\ lines < MaxLines
    /\ reader.open
    /\ \/ /\ ~reader.mid
          /\ reader.pos = Len(journal_file.lines)
          /\ journal_file.part # <<>>
          /\ reader' = [reader EXCEPT !.mid = TRUE]
       \/ /\ reader.mid
          /\ reader.pos < Len(journal_file.lines)
          /\ reader' = [reader EXCEPT !.pos = @ + 1, !.mid = FALSE]
    /\ lines' = lines + 1
    /\ last' = [json |-> "invalid"]
    /\ repeated' = (last = [json |-> "invalid"])
    /\ refreshed' = FALSE
    /\ UNCHANGED <<variant, pc, ledger, cache, rendered, system_signals,
                   journal_file>>

NextJournal ==
    \/ \E status \in StatusFiles, nav \in NavRouteFiles :
          Bootstrap(journal_file.lines, status, nav)
    \/ OpenTail
    \/ \E event \in JournalEvents : GameWrites(event)
    \/ \E event \in JournalEvents : GameStarts(event)
    \/ GameEnds
    \/ \E event \in JournalEvents, status \in StatusFiles, nav \in NavRouteFiles :
          Arrival(event, status, nav)
    \/ FragmentRead

SpecJournal == InitJournal /\ [][NextJournal]_vars

\* C38: whenever the tail loop stands between two lines, the lines given
\* to handle_event are exactly the complete lines between the end of the
\* file at the bootstrap scan and the position, each once and in file
\* order.
C38_EveryLineAppliedOnce ==
    (reader.open /\ ~reader.mid) =>
       reader.applied =
          [k \in 1..(reader.pos - journal_file.boot) |-> journal_file.boot + k]

\* C39: a body that appears in the current system has scanned_dss false
\* and the value of its type without the DSS multiplier, whether or not
\* SAAScanComplete named it before; a body that stays has scanned_dss
\* true exactly if it had it before or the step is a SAAScanComplete
\* that names it.
C39_DssOnlyWhilePresent ==
    [][\A j \in 1..Len(Bodies') :
          LET i == IF Step /\ IsArrival(last') THEN 0
                   ELSE FindBody(Bodies, Bodies'[j].name)
          IN IF i = 0
             THEN /\ ~Bodies'[j].scanned_dss
                  /\ Bodies'[j].value = calculate_body_value(Bodies'[j].type, FALSE)
             ELSE Bodies'[j].scanned_dss <=>
                     \/ Bodies[i].scanned_dss
                     \/ /\ Step
                        /\ IsScanComplete(last')
                        /\ last'.BodyName = Bodies'[j].name]_vars

\* The surface scan of Sol A was completed before the body was known;
\* its scan came later: DSS is marked as used in the system, the body is
\* not mapped and its value is the unmapped one; another body, present
\* when its surface scan was completed, is mapped.
C39_Witness ==
    /\ IsScan(last)
    /\ last.BodyName = "Sol A"
    /\ HasCurrent
    /\ Cur.dss_used
    /\ LastBody > 0
    /\ ~Bodies[LastBody].scanned_dss
    /\ Bodies[LastBody].type = "Earthlike World"
    /\ Bodies[LastBody].value = calculate_body_value("Earthlike World", FALSE)
    /\ \E i \in 1..Len(Bodies) : Bodies[i].name = "Sol B" /\ Bodies[i].scanned_dss

\* The record is one of the five body events.
IsBodyEvent(event) ==
    event.event \in {"Scan", "FSSBodySignals", "SAASignalsFound",
                     "SAAScanComplete", "ScanOrganic"}

\* C40 (app.py): while there is no current system, a body event leaves
\* the ledger as it is and the tail loop goes on; a current system
\* appears only with an arrival record, read by the tail loop or found
\* by the bootstrap scan.
C40_NoSystemNoBodies ==
    [][/\ (Step /\ ~HasCurrent /\ IsBodyEvent(last')) =>
             /\ UNCHANGED ledger
             /\ ~HasCurrent'
             /\ pc' = "watch"
       /\ (~HasCurrent /\ HasCurrent') =>
             \/ Step /\ IsArrival(last')
             \/ pc = "boot"]_vars

\* Two lines were read without a current system, the last one a signal
\* event with biological signals: there is still no system and nothing
\* is archived.
C40_Witness ==
    /\ variant = "app"
    /\ ~HasCurrent
    /\ lines >= 2
    /\ IsSignals(last)
    /\ AnyCount(EventCounts(last))
    /\ systems = <<>>
    /\ pc = "watch"

====
